---- MODULE Spec2Model ----
(***************************************************************************)
(* A model of akaidoo's source-shrinking engine (shrinker.py), of the      *)
(* model scanner (utils.py), of the addon scan loop (scanner.py) and of    *)
(* the command that drives them (cli.py).                                  *)
(*                                                                         *)
(* A source file is the ordered list of the top-level nodes of its parse   *)
(* tree.  Every node carries the structure the code inspects (node types,  *)
(* identifiers, call targets, arguments) and its text is rendered from     *)
(* that structure, so output text is compared as real strings.  Dotted     *)
(* model names ('a.b') are sequences of segments (<<"a", "b">>): string    *)
(* concatenation with "." and str.startswith are then sequence             *)
(* concatenation and proper-prefix tests.                                  *)
(***************************************************************************)
EXTENDS Integers, Sequences, FiniteSets, TLC

VARIABLES
    file,       \* shrinker: the top-level nodes of the parsed source file
    req,        \* shrinker: the arguments of one shrink_python_file call
    pc,         \* shrinker: "parsed" | "scanned" | "shrunk"
    stats,      \* result of get_odoo_model_stats on the file
    out,        \* result of shrink_python_file
    addon,      \* scan loop: the files of the addon being scanned
    mode,       \* scan loop: the arguments of one scan_addon_files call
    scanIdx,    \* scan loop: index of the next file to check
    found,      \* scan loop: found_files
    shrunk,     \* scan loop: shrunken_files_content and shrunken_files_info, by path
    scanPc,     \* scan loop: "idle" | "scanning" | "returned" | "raised"
    cmd,        \* command: the argument and the options of one akaidoo run
    ctx,        \* command: the context resolve_akaidoo_context builds
    cliPc,      \* command: the step of the run
    term        \* command: exit code, error message and output actions performed

vars == <<file, req, pc, stats, out, addon, mode, scanIdx, found, shrunk, scanPc,
          cmd, ctx, cliPc, term>>
shrinkVars == <<file, req, pc, stats, out>>
scanVars == <<addon, mode, scanIdx, found, shrunk, scanPc>>
cliVars == <<cmd, ctx, cliPc, term>>

-----------------------------------------------------------------------------
(* Bounds of the model.                                                    *)

MaxTop == 2         \* top-level nodes in a file
MaxDecls == 2       \* declarations in a file: class-body declarations and top-level non-class nodes
MaxFlags == 1       \* options of a request that differ from their default
MaxFiles == 2       \* files of the scanned addon
MaxFields == 3      \* fields added to the class under edit
MaxMethods == 2     \* methods added to the class under edit
MaxBlocks == 1      \* blocks of ten lines added to the class under edit

None == <<>>        \* Python None where a model name or a method name is expected
NoSuffix == "None"  \* Python None as first_header_suffix

-----------------------------------------------------------------------------
(* Text helpers.                                                           *)

RECURSIVE Join(_, _)
Join(seq, sep) ==
    IF seq = <<>> THEN ""
    ELSE IF Len(seq) = 1 THEN seq[1]
    ELSE seq[1] \o sep \o Join(Tail(seq), sep)

RECURSIVE Flatten(_)
Flatten(ss) == IF ss = <<>> THEN <<>> ELSE Head(ss) \o Flatten(Tail(ss))

RECURSIVE SeqsUpTo(_, _)
SeqsUpTo(S, n) ==
    IF n = 0 THEN {<<>>}
    ELSE LET shorter == SeqsUpTo(S, n - 1)
         IN shorter \cup {Append(s, x) : s \in {t \in shorter : Len(t) = n - 1}, x \in S}

Range(seq) == {seq[i] : i \in 1..Len(seq)}

Dotted(name) == Join(name, ".")
Quote(s) == "'" \o s \o "'"
RECURSIVE Indent(_)
Indent(col) == IF col = 0 THEN "" ELSE " " \o Indent(col - 1)
Ind4 == Indent(4)

\* pm.startswith(f"{m}."): pm is m, a dot, and at least a further segment
StartsWithDot(pm, m) == Len(pm) > Len(m) /\ SubSeq(pm, 1, Len(m)) = m

-----------------------------------------------------------------------------
(* The parse tree.                                                         *)

\* an argument of a call: positional (type = the node type of the value) or
\* keyword (type = "keyword_argument", vtype = the node type of its value)
PosArg(ty, val) == [type |-> ty, key |-> "", vtype |-> ty, val |-> val]
KwArg(key, vty, val) == [type |-> "keyword_argument", key |-> key, vtype |-> vty, val |-> val]

ValText(ty, val) == IF ty = "string" THEN Quote(Dotted(val)) ELSE Dotted(val)
ArgText(a) ==
    IF a.type = "keyword_argument" THEN a.key \o "=" \o ValText(a.vtype, a.val)
    ELSE ValText(a.type, a.val)

\* the right-hand side of an assignment
StrRhs(name) == [type |-> "string", names |-> <<name>>, obj |-> "", attr |-> "", args |-> <<>>]
ListRhs(names) == [type |-> "list", names |-> names, obj |-> "", attr |-> "", args |-> <<>>]
IntRhs(n) == [type |-> "integer", names |-> <<<<n>>>>, obj |-> "", attr |-> "", args |-> <<>>]
CallRhs(obj, attr, args) == [type |-> "call", names |-> <<>>, obj |-> obj, attr |-> attr, args |-> args]

ArgTexts(args) == [i \in 1..Len(args) |-> ArgText(args[i])]
QuotedNames(names) == [i \in 1..Len(names) |-> Quote(Dotted(names[i]))]

\* the source text of a call whose argument list renders as the given texts
CallText(obj, attr, texts) == obj \o "." \o attr \o "(" \o Join(texts, ", ") \o ")"

RhsText(r) ==
    CASE r.type = "string" -> Quote(Dotted(r.names[1]))
      [] r.type = "list" -> "[" \o Join(QuotedNames(r.names), ", ") \o "]"
      [] r.type = "integer" -> Dotted(r.names[1])
      [] OTHER -> CallText(r.obj, r.attr, ArgTexts(r.args))

\* expression_statement nodes: an assignment to an identifier, or a bare string
\* (a docstring).  An identifier is the sequence of its pieces, a leading
\* underscore being a piece of its own: <<"_", "name">> is _name.
Assign(lhs, right) ==
    [type |-> "expression_statement", expr |-> "assignment", lhs |-> lhs, right |-> right]
Docstring(text) ==
    [type |-> "expression_statement", expr |-> "string", lhs |-> <<>>, right |-> StrRhs(<<text>>)]
IdentText(id) == Join(id, "")
StartsWithUnderscore(id) == id # <<>> /\ id[1] = "_"

\* function_definition, or decorated_definition wrapping one
FuncDef(decorators, name, body) ==
    [type |-> IF decorators = <<>> THEN "function_definition" ELSE "decorated_definition",
     definition |-> "function_definition",
     decorators |-> decorators, name |-> name, body |-> body]

ClassDef(name, body) == [type |-> "class_definition", name |-> name, body |-> body]
Import(module) == [type |-> "import_statement", module |-> module]
\* a compound statement that is no definition, with the nodes nested in it
IfStmt(cond, children) == [type |-> "if_statement", cond |-> cond, children |-> children]

IsAssignment(n) == n.type = "expression_statement" /\ n.expr = "assignment"
IsFunction(n) == n.type \in {"function_definition", "decorated_definition"}

-----------------------------------------------------------------------------
(* Source text of the nodes: code_bytes[node.start_byte : node.end_byte].   *)
(* A node starts at its first character, so the first line of a node's     *)
(* text carries no indentation and the following lines carry all of theirs. *)

StmtText(n) ==
    IF n.expr = "assignment" THEN IdentText(n.lhs) \o " = " \o RhsText(n.right)
    ELSE "\"\"\"" \o Dotted(n.right.names[1]) \o "\"\"\""

Signature(f) == "def " \o f.name \o "(self):"

\* the lines of a function's header: decorators, then the signature
HeaderLines(f) == Append(f.decorators, Signature(f))

\* lines of a function whose first line sits at column col
FuncLines(f, col) ==
    LET hdr == HeaderLines(f)
        rest == [i \in 1..(Len(hdr) - 1) |-> Indent(col) \o hdr[i + 1]]
        body == [i \in 1..Len(f.body) |-> Indent(col + 4) \o f.body[i]]
    IN <<hdr[1]>> \o rest \o body
FuncText(f, col) == Join(FuncLines(f, col), "\n")

ClassHeader(c) == "class " \o c.name \o "(models.Model):"

\* lines of a declaration of a class body whose first line sits at column col
MemberLines(m, col) == IF IsFunction(m) THEN FuncLines(m, col) ELSE <<StmtText(m)>>

\* lines of a class whose header sits at column col
ClassLines(c, col) ==
    <<ClassHeader(c)>>
    \o Flatten([i \in 1..Len(c.body) |->
           LET ls == MemberLines(c.body[i], col + 4)
           IN <<Indent(col + 4) \o ls[1]>> \o Tail(ls)])
ClassText(c) == Join(ClassLines(c, 0), "\n")

\* lines of a top-level node
NodeLines(n) ==
    CASE n.type = "class_definition" -> ClassLines(n, 0)
      [] IsFunction(n) -> FuncLines(n, 0)
      [] n.type = "import_statement" -> <<"import " \o n.module>>
      [] n.type = "if_statement" ->
            <<"if " \o n.cond \o ":">>
            \o Flatten([i \in 1..Len(n.children) |->
                   LET ls == ClassLines(n.children[i], 4)
                   IN <<Ind4 \o ls[1]>> \o Tail(ls)])
      [] OTHER -> <<StmtText(n)>>
NodeText(n) == Join(NodeLines(n), "\n")

\* the source file: the nodes follow one another without blank lines
SourceLines(nodes) == Flatten([i \in 1..Len(nodes) |-> NodeLines(nodes[i])])

\* node.start_point[0] and node.end_point[0] of the i-th top-level node (rows from 0)
StartRow(nodes, i) == Len(SourceLines(SubSeq(nodes, 1, i - 1)))
EndRow(nodes, i) == StartRow(nodes, i) + Len(NodeLines(nodes[i])) - 1

-----------------------------------------------------------------------------
(* utils.py: the model scanner.                                            *)

\* _get_odoo_model_name_from_body: the value of the first assignment to _name
\* or to _inherit whose right-hand side is a string, in body order
RECURSIVE GetOdooModelNameFromBody(_)
GetOdooModelNameFromBody(body) ==
    IF body = <<>> THEN None
    ELSE LET child == Head(body)
         IN IF /\ IsAssignment(child)
               /\ IdentText(child.lhs) \in {"_name", "_inherit"}
               /\ child.right.type = "string"
            THEN child.right.names[1]
            ELSE GetOdooModelNameFromBody(Tail(body))

\* _get_odoo_model_names_from_body: every name a class declares, the string
\* value of _name and the string or the list elements of _inherit
GetOdooModelNamesFromBody(body) ==
    UNION {Range(body[i].right.names) :
             i \in {j \in 1..Len(body) :
                      /\ IsAssignment(body[j])
                      /\ \/ IdentText(body[j].lhs) = "_name" /\ body[j].right.type = "string"
                         \/ /\ IdentText(body[j].lhs) = "_inherit"
                            /\ body[j].right.type \in {"string", "list"}}}

\* the class_definition nodes scan_node visits, in visiting order, each with
\* the column of its header: the top-level classes and the classes nested in
\* a compound statement
ScannedClasses(nodes) ==
    Flatten([i \in 1..Len(nodes) |->
        CASE nodes[i].type = "class_definition" -> <<[cls |-> nodes[i], col |-> 0]>>
          [] nodes[i].type = "if_statement" ->
                [j \in 1..Len(nodes[i].children) |-> [cls |-> nodes[i].children[j], col |-> 4]]
          [] OTHER -> <<>>])

FieldsCount(body) ==
    Cardinality({i \in 1..Len(body) :
                    IsAssignment(body[i]) /\ ~StartsWithUnderscore(body[i].lhs)})
MethodsCount(body) == Cardinality({i \in 1..Len(body) : IsFunction(body[i])})

\* the score with the remainder of the line count in place of its tens
ClassScoreRemainder(fields_count, methods_count, lines_count) ==
    fields_count * 1 + methods_count * 3 + (lines_count % 10) * 2

\* score of one class: fields=1, methods=3, 10 lines=2
ClassScore(fields_count, methods_count, lines_count) ==
    fields_count * 1 + methods_count * 3 + (lines_count \div 10) * 2

NoStats == [n \in {} |-> [fields |-> 0, methods |-> 0, score |-> 0]]

\* the stats with the score of a model's latest class in place of the sum
RECURSIVE AccumulateStatsLastScore(_, _)
AccumulateStatsLastScore(classes, acc) ==
    IF classes = <<>> THEN acc
    ELSE LET c == Head(classes)
             model_name == GetOdooModelNameFromBody(c.cls.body)
             model_info == IF model_name \in DOMAIN acc THEN acc[model_name]
                           ELSE [fields |-> 0, methods |-> 0, score |-> 0]
             fields_count == FieldsCount(c.cls.body)
             methods_count == MethodsCount(c.cls.body)
             lines_count == Len(ClassLines(c.cls, c.col))
             updated == [fields |-> model_info.fields + fields_count,
                         methods |-> model_info.methods + methods_count,
                         score |-> ClassScore(fields_count, methods_count, lines_count)]
         IN IF model_name = None THEN AccumulateStatsLastScore(Tail(classes), acc)
            ELSE AccumulateStatsLastScore(Tail(classes),
                    [n \in DOMAIN acc \cup {model_name} |->
                        IF n = model_name THEN updated ELSE acc[n]])

\* get_odoo_model_stats: the stats accumulated over the scanned classes
RECURSIVE AccumulateStats(_, _)
AccumulateStats(classes, acc) ==
    IF classes = <<>> THEN acc
    ELSE LET c == Head(classes)
             model_name == GetOdooModelNameFromBody(c.cls.body)
             model_info == IF model_name \in DOMAIN acc THEN acc[model_name]
                           ELSE [fields |-> 0, methods |-> 0, score |-> 0]
             fields_count == FieldsCount(c.cls.body)
             methods_count == MethodsCount(c.cls.body)
             lines_count == Len(ClassLines(c.cls, c.col))
             updated == [fields |-> model_info.fields + fields_count,
                         methods |-> model_info.methods + methods_count,
                         score |-> model_info.score
                                   + ClassScore(fields_count, methods_count, lines_count)]
         IN IF model_name = None THEN AccumulateStats(Tail(classes), acc)
            ELSE AccumulateStats(Tail(classes),
                    [n \in DOMAIN acc \cup {model_name} |->
                        IF n = model_name THEN updated ELSE acc[n]])

GetOdooModelStats(nodes) == AccumulateStats(ScannedClasses(nodes), NoStats)

-----------------------------------------------------------------------------
(* shrinker.py: field classification and metadata stripping.               *)

RelationalTypes == {"Many2one", "One2many", "Many2many"}

\* the first loop over the arguments: the first string is the comodel, unless
\* an identifier, attribute, call, integer or float comes before it
RECURSIVE PositionalComodel(_)
PositionalComodel(args) ==
    IF args = <<>> THEN None
    ELSE IF Head(args).type = "string" THEN Head(args).val
    ELSE IF Head(args).type \in {"identifier", "attribute", "call", "integer", "float"} THEN None
    ELSE PositionalComodel(Tail(args))

\* the second loop over the arguments, for one key: the last keyword argument
\* of that name whose value has one of the wanted node types, else the default
RECURSIVE KeywordValue(_, _, _, _)
KeywordValue(args, key, vtypes, default) ==
    IF args = <<>> THEN default
    ELSE LET a == Head(args)
         IN KeywordValue(Tail(args), key, vtypes,
                IF a.type = "keyword_argument" /\ a.key = key /\ a.vtype \in vtypes
                THEN a.val ELSE default)

NoFieldInfo == [name |-> None, type |-> "", comodel |-> None, compute |-> None,
                store |-> None, is_field |-> FALSE]

\* _get_field_info
GetFieldInfo(node) ==
    IF ~IsAssignment(node) THEN NoFieldInfo
    ELSE IF StartsWithUnderscore(node.lhs) \/ node.right.type # "call"
              \/ node.right.obj \notin {"fields", "models"}
    THEN [NoFieldInfo EXCEPT !.name = node.lhs]
    ELSE LET args == node.right.args
             positional == IF node.right.attr \in RelationalTypes
                           THEN PositionalComodel(args) ELSE None
         IN [name |-> node.lhs,
             type |-> node.right.attr,
             comodel |-> KeywordValue(args, "comodel_name", {"string"}, positional),
             compute |-> KeywordValue(args, "compute", {"string"}, None),
             store |-> KeywordValue(args, "store", {"true", "false"}, None),
             is_field |-> TRUE]

\* re.sub(r",?\s*<key>\s*=\s*(['"])...\1", "", line) on the text of a call whose
\* argument list renders as texts: a matching argument goes with the comma
\* before it; the first argument has none, and leaves its place empty
RECURSIVE RemoveKeyword(_, _, _, _)
RemoveKeyword(args, texts, key, first) ==
    IF args = <<>> THEN <<>>
    ELSE LET a == Head(args)
             hit == a.type = "keyword_argument" /\ a.key = key /\ a.vtype = "string"
                      /\ Head(texts) # ""
             rest == RemoveKeyword(Tail(args), Tail(texts), key, FALSE)
         IN IF ~hit THEN <<Head(texts)>> \o rest
            ELSE IF first THEN <<"">> \o rest
            ELSE rest

\* the arguments that still stand behind the texts RemoveKeyword kept
RECURSIVE KeptArgs(_, _, _)
KeptArgs(args, key, first) ==
    IF args = <<>> THEN <<>>
    ELSE LET a == Head(args)
             hit == a.type = "keyword_argument" /\ a.key = key /\ a.vtype = "string"
             rest == KeptArgs(Tail(args), key, FALSE)
         IN IF hit /\ ~first THEN rest ELSE <<a>> \o rest

\* text of an assignment whose call arguments were cut down to texts.  The
\* comma repairs (", ," and ",, " and a comma before ")"), the comment removal
\* and strip() change nothing on a one-line call without doubled or trailing
\* commas and without "#".
AssignText(node, texts) ==
    IdentText(node.lhs) \o " = " \o CallText(node.right.obj, node.right.attr, texts)

\* clean_line, on the text of an assignment
CleanLine(node, strip_metadata) ==
    IF ~strip_metadata \/ node.right.type # "call" THEN StmtText(node)
    ELSE AssignText(node, RemoveKeyword(node.right.args, ArgTexts(node.right.args), "help", TRUE))

\* _strip_field_metadata, on the text of a field assignment
StripFieldMetadata(node) ==
    LET args == node.right.args
        noHelp == RemoveKeyword(args, ArgTexts(args), "help", TRUE)
    IN AssignText(node, RemoveKeyword(KeptArgs(args, "help", TRUE), noHelp, "string", TRUE))

-----------------------------------------------------------------------------
(* shrinker.py: shrink_python_file.                                        *)

Levels == {"none", "soft", "hard", "extreme"}

\* shrink_level, or the level the aggressive flag stands for when it is None
ResolveLevel(shrink_level, aggressive) ==
    IF shrink_level = "None" THEN (IF aggressive THEN "hard" ELSE "soft") ELSE shrink_level

\* the elements of a set in the order a loop over it visits them: Python
\* leaves the order of a set of strings open (it changes with the hash seed),
\* so it is an input: order lists every string the run may meet
InOrder(S, order) == SelectSeq(order, LAMBDA x : x \in S)

\* the loop as it would run with its break one level out: only the first
\* model of the iteration is ever tried
ShouldPruneFirstOnly(ms, func_name, prune_methods) ==
    ms # <<>> /\ Append(Head(ms), func_name) \in prune_methods

\* for m in context_models: if f"{m}.{func_name}" in prune_methods: ...; break
RECURSIVE ShouldPruneSpecifically(_, _, _)
ShouldPruneSpecifically(ms, func_name, prune_methods) ==
    IF ms = <<>> THEN FALSE
    ELSE IF Append(Head(ms), func_name) \in prune_methods THEN TRUE
    ELSE ShouldPruneSpecifically(Tail(ms), func_name, prune_methods)

\* the test as it would run with pm == m in place of pm.startswith(f"{m}.")
AnyEqualsModel(pms, m) == \E k \in 1..Len(pms) : pms[k] = m

\* for pm in prune_methods: if pm.startswith(f"{m}."): ...; break
RECURSIVE AnyStartsWith(_, _)
AnyStartsWith(pms, m) ==
    IF pms = <<>> THEN FALSE
    ELSE IF StartsWithDot(Head(pms), m) THEN TRUE
    ELSE AnyStartsWith(Tail(pms), m)

\* has_pruned_methods: the outer loop, over the model names of the class
RECURSIVE HasPrunedMethods(_, _)
HasPrunedMethods(ms, pms) ==
    IF ms = <<>> THEN FALSE
    ELSE IF AnyStartsWith(pms, Head(ms)) THEN TRUE
    ELSE HasPrunedMethods(Tail(ms), pms)

\* the header of a function, the first line of its body, and a placeholder
PlaceholderAfterFirstLine(node, indent, tag) ==
    [i \in 1..Len(HeaderLines(node)) |-> indent \o HeaderLines(node)[i]]
    \o <<indent \o "    " \o node.body[1], indent \o "    pass  # " \o tag>>

\* the header of a function, one part per line, and a placeholder body
Placeholder(node, indent, tag) ==
    [i \in 1..Len(HeaderLines(node)) |-> indent \o HeaderLines(node)[i]]
    \o <<indent \o "    pass  # " \o tag>>

\* process_function with the test of the level before the test of the
\* force-prune set
ProcessFunctionLevelFirst(node, indent, col, context_models, effective_level, r, seed) ==
    IF node.type = "decorated_definition" /\ node.definition # "function_definition" THEN <<>>
    ELSE IF effective_level \in {"hard", "extreme"} THEN <<>>
    ELSE IF effective_level = "soft" THEN Placeholder(node, indent, "shrunk")
    ELSE IF /\ context_models # {}
            /\ ShouldPruneSpecifically(InOrder(context_models, seed.names),
                                       node.name, r.prune_methods)
    THEN Placeholder(node, indent, "pruned by request")
    ELSE <<FuncText(node, col)>>

\* process_function without the early return of the levels hard and extreme
ProcessFunctionKeepHard(node, indent, col, context_models, effective_level, r, seed) ==
    IF node.type = "decorated_definition" /\ node.definition # "function_definition" THEN <<>>
    ELSE IF /\ context_models # {}
            /\ \E m \in context_models : Append(m, node.name) \in r.prune_methods
    THEN Placeholder(node, indent, "pruned by request")
    ELSE IF effective_level = "soft" THEN Placeholder(node, indent, "shrunk")
    ELSE <<FuncText(node, col)>>

\* process_function: the parts it appends.  col is the column of the node in
\* the source, indent the prefix the caller asks for.
ProcessFunction(node, indent, col, context_models, effective_level, r, seed) ==
    IF node.type = "decorated_definition" /\ node.definition # "function_definition" THEN <<>>
    ELSE LET should_prune_specifically ==
                 /\ context_models # {}
                 /\ ShouldPruneSpecifically(InOrder(context_models, seed.names),
                                            node.name, r.prune_methods)
         IN IF effective_level \in {"hard", "extreme"} /\ ~should_prune_specifically THEN <<>>
            ELSE IF should_prune_specifically THEN Placeholder(node, indent, "pruned by request")
            ELSE IF effective_level = "soft" THEN Placeholder(node, indent, "shrunk")
            ELSE <<FuncText(node, col)>>

\* f" (lines {start_line}-{end_line})" of the i-th top-level node
LineRangeStr(nodes, i) ==
    " (lines " \o ToString(StartRow(nodes, i) + 1) \o "-" \o ToString(EndRow(nodes, i) + 1) \o ")"

FilepathMarker(header_path, line_range_str) == "# FILEPATH: " \o header_path \o line_range_str

\* the pre-scan: the number of top-level classes that declare a model
OdooModelsCount(nodes) ==
    Cardinality({i \in 1..Len(nodes) :
                    /\ nodes[i].type = "class_definition"
                    /\ GetOdooModelNamesFromBody(nodes[i].body) # {}})

\* the marker as it would be inserted without the test of current_model_index
ExpandMarkerEvery(nodes, i, index, count, r) ==
    IF count > 1 /\ r.header_path # ""
    THEN <<"", "# FILEPATH: " \o r.header_path \o LineRangeStr(nodes, i)>>
    ELSE <<>>

\* the marker an expanded class gets in a file of several models, when it is
\* not the first model of the file and a header path was given
ExpandMarker(nodes, i, index, count, r) ==
    IF count > 1 /\ index # 1 /\ r.header_path # ""
    THEN <<"", FilepathMarker(r.header_path, LineRangeStr(nodes, i))>>
    ELSE <<>>

\* the header suffix an expanded class sets: its range when it is the first
\* model of a file of several models
ExpandSuffix(nodes, i, index, count, suffix) ==
    IF count > 1 /\ index = 1 THEN LineRangeStr(nodes, i) ELSE suffix

\* the body loop without the branch of the level extreme: a field is emitted
\* as at the other levels
BodyChildPartsNoBuckets(child, model_names, effective_level, r, seed) ==
    IF IsAssignment(child)
    THEN IF effective_level = "none" THEN <<Ind4 \o StmtText(child)>>
         ELSE <<Ind4 \o CleanLine(child, r.strip_metadata)>>
    ELSE IF IsFunction(child)
    THEN ProcessFunction(child, Ind4, 4, model_names, effective_level, r, seed)
    ELSE <<>>

\* one declaration of a class that is not emitted verbatim: the parts it appends
BodyChildParts(child, model_names, effective_level, r, seed) ==
    IF IsAssignment(child)
    THEN IF effective_level = "none" THEN <<Ind4 \o StmtText(child)>>
         ELSE LET f_info == GetFieldInfo(child)
              IN IF f_info.is_field /\ effective_level = "extreme"
                 THEN IF f_info.comodel \in r.relevant_models
                      THEN <<Ind4 \o StripFieldMetadata(child)>>
                      ELSE <<>>
                 ELSE <<Ind4 \o CleanLine(child, r.strip_metadata)>>
    ELSE IF IsFunction(child)
    THEN ProcessFunction(child, Ind4, 4, model_names, effective_level, r, seed)
    ELSE <<>>

\* the labels the fields of a body add to the two lists of shrunk fields
ComputedFields(body) ==
    LET fs == SelectSeq(body, LAMBDA c : IsAssignment(c) /\ GetFieldInfo(c).is_field
                                          /\ GetFieldInfo(c).compute # None)
    IN [i \in 1..Len(fs) |-> IdentText(GetFieldInfo(fs[i]).name) \o " ("
                             \o Dotted(GetFieldInfo(fs[i]).compute) \o ")"]
NonComputedFields(body) ==
    LET fs == SelectSeq(body, LAMBDA c : IsAssignment(c) /\ GetFieldInfo(c).is_field
                                          /\ GetFieldInfo(c).compute = None)
    IN [i \in 1..Len(fs) |-> IdentText(GetFieldInfo(fs[i]).name)]

SummaryLines(body, effective_level) ==
    IF effective_level # "extreme" THEN <<>>
    ELSE (IF NonComputedFields(body) # <<>>
          THEN <<"    # Shrunk non computed fields: " \o Join(NonComputedFields(body), ", ")>>
          ELSE <<>>)
         \o (IF ComputedFields(body) # <<>>
             THEN <<"    # Shrunk computed_fields: " \o Join(ComputedFields(body), ", ")>>
             ELSE <<>>)

\* the class processed at the requested level also when it is expanded
ProcessClassRequestedLevel(nodes, i, st, count, r, seed) ==
    LET node == nodes[i]
        model_names == GetOdooModelNamesFromBody(node.body)
        index == IF model_names # {} THEN st.index + 1 ELSE st.index
        should_expand == \E m \in model_names : m \in r.expand_models
        has_pruned_methods == HasPrunedMethods(InOrder(model_names, seed.names),
                                               InOrder(r.prune_methods, seed.prunes))
        effective_level == r.shrink_level
        expanded == [index |-> index,
                     matched |-> st.matched \cup (model_names \cap r.expand_models),
                     suffix |-> ExpandSuffix(nodes, i, index, count, st.suffix)]
    IN IF should_expand /\ ~has_pruned_methods
       THEN [st |-> expanded,
             parts |-> ExpandMarker(nodes, i, index, count, r) \o <<ClassText(node)>> \o <<"">>]
       ELSE [st |-> IF should_expand THEN expanded ELSE [st EXCEPT !.index = index],
             parts |-> (IF should_expand THEN ExpandMarker(nodes, i, index, count, r) ELSE <<>>)
                       \o <<ClassHeader(node)>>
                       \o Flatten([k \in 1..Len(node.body) |->
                              BodyChildParts(node.body[k], model_names, effective_level, r, seed)])
                       \o SummaryLines(node.body, effective_level)
                       \o <<"">>]

\* the class branch of the loop over the top-level nodes, for node i; st is
\* the state of the loop: [index, matched, suffix]
ProcessClass(nodes, i, st, count, r, seed) ==
    LET node == nodes[i]
        model_names == GetOdooModelNamesFromBody(node.body)
        index == IF model_names # {} THEN st.index + 1 ELSE st.index
        should_expand == \E m \in model_names : m \in r.expand_models
        has_pruned_methods == HasPrunedMethods(InOrder(model_names, seed.names),
                                               InOrder(r.prune_methods, seed.prunes))
        effective_level == IF should_expand THEN "none" ELSE r.shrink_level
        expanded == [index |-> index,
                     matched |-> st.matched \cup (model_names \cap r.expand_models),
                     suffix |-> ExpandSuffix(nodes, i, index, count, st.suffix)]
    IN IF should_expand /\ ~has_pruned_methods
       THEN [st |-> expanded,
             parts |-> ExpandMarker(nodes, i, index, count, r) \o <<ClassText(node)>> \o <<"">>]
       ELSE [st |-> IF should_expand THEN expanded ELSE [st EXCEPT !.index = index],
             parts |-> (IF should_expand THEN ExpandMarker(nodes, i, index, count, r) ELSE <<>>)
                       \o <<ClassHeader(node)>>
                       \o Flatten([k \in 1..Len(node.body) |->
                              BodyChildParts(node.body[k], model_names, effective_level, r, seed)])
                       \o SummaryLines(node.body, effective_level)
                       \o <<"">>]

\* one turn of the loop over the top-level nodes
ProcessNode(nodes, i, st, count, r, seed) ==
    LET node == nodes[i]
    IN CASE node.type \in {"import_statement", "import_from_statement"} ->
              [st |-> st, parts |-> IF r.skip_imports THEN <<>> ELSE <<NodeText(node)>>]
         [] node.type = "class_definition" -> ProcessClass(nodes, i, st, count, r, seed)
         [] IsFunction(node) ->
              [st |-> st,
               parts |-> ProcessFunction(node, "", 0, {}, r.shrink_level, r, seed)
                         \o (IF r.shrink_level = "soft" THEN <<"">> ELSE <<>>)]
         [] IsAssignment(node) ->
              [st |-> st, parts |-> <<CleanLine(node, r.strip_metadata)>>]
         [] OTHER -> [st |-> st, parts |-> <<>>]

\* the loop: chunks[i] is what the i-th top-level node appended to shrunken_parts
RECURSIVE ProcessNodes(_, _, _, _, _, _, _)
ProcessNodes(nodes, i, st, chunks, count, r, seed) ==
    IF i > Len(nodes) THEN [st |-> st, chunks |-> chunks]
    ELSE LET step == ProcessNode(nodes, i, st, count, r, seed)
         IN ProcessNodes(nodes, i + 1, step.st, Append(chunks, step.parts), count, r, seed)

\* while shrunken_parts and shrunken_parts[-1] == "": shrunken_parts.pop()
RECURSIVE TrimTrailingBlanks(_)
TrimTrailingBlanks(parts) ==
    IF parts # <<>> /\ parts[Len(parts)] = ""
    THEN TrimTrailingBlanks(SubSeq(parts, 1, Len(parts) - 1))
    ELSE parts

\* shrink_python_file: r is the request with its level resolved
ShrinkPythonFile(nodes, r, seed) ==
    LET run == ProcessNodes(nodes, 1, [index |-> 0, matched |-> {}, suffix |-> NoSuffix],
                            <<>>, OdooModelsCount(nodes), r, seed)
        parts == TrimTrailingBlanks(Flatten(run.chunks))
    IN [text |-> Join(parts, "\n") \o "\n",
        parts |-> parts,
        chunks |-> run.chunks,
        matched |-> run.st.matched,
        suffix |-> run.st.suffix]

-----------------------------------------------------------------------------
(* The inputs: source files and requests.                                  *)

NA == <<"a">>           \* the model 'a'
NAB == <<"a", "b">>     \* the model 'a.b', whose name extends 'a'
ModelNames == {NA, NAB}
Underscore(base) == <<"_", base>>

NameA == Assign(Underscore("name"), StrRhs(NA))
InheritAB == Assign(Underscore("inherit"), StrRhs(NAB))
InheritList == Assign(Underscore("inherit"), ListRhs(<<NA, NAB>>))
\* f = fields.Char(help='h')
FieldF == Assign(<<"f">>, CallRhs("fields", "Char", <<KwArg("help", "string", <<"h">>)>>))
\* g = fields.Many2one('a.b', string='S', compute='_c')
FieldG == Assign(<<"g">>, CallRhs("fields", "Many2one",
              <<PosArg("string", NAB), KwArg("string", "string", <<"S">>),
                KwArg("compute", "string", <<"_c">>)>>))
\* h = fields.Float(compute=_c)
FieldH == Assign(<<"h">>, CallRhs("fields", "Float", <<KwArg("compute", "identifier", <<"_c">>)>>))
\* r = fields.Many2one(None, 'a.b')
FieldR == Assign(<<"r">>, CallRhs("fields", "Many2one",
              <<PosArg("none", <<"None">>), PosArg("string", NAB)>>))
\* X = 1
PlainX == Assign(<<"X">>, IntRhs("1"))
MethodM == FuncDef(<<>>, "m", <<"x = 1", "return x">>)
MethodN == FuncDef(<<"@api.model">>, "n", <<"pass">>)
Doc == Docstring("Doc")

BodyDecls ==
    {NameA, InheritAB, InheritList, FieldF, FieldG, FieldH, FieldR, PlainX, MethodM, MethodN, Doc}

Classes == {ClassDef("A", body) : body \in SeqsUpTo(BodyDecls, MaxDecls)}

\* top-level nodes that are no class: an import, an assignment, a function, and
\* a compound statement holding a class
OtherNodes == {Import("os"), PlainX, MethodM, IfStmt("X", <<ClassDef("B", <<NameA>>)>>)}

DeclCount(nodes) ==
    Len(Flatten([i \in 1..Len(nodes) |->
            IF nodes[i].type = "class_definition" THEN nodes[i].body ELSE <<nodes[i]>>]))

Files == {f \in SeqsUpTo(Classes \cup OtherNodes, MaxTop) : DeclCount(f) <= MaxDecls}

\* entries of the force-prune set: 'a.m' and 'a.b.m'
PruneEntries == {Append(NA, "m"), Append(NAB, "m")}

DefaultRequest ==
    [shrink_level |-> "soft", expand_models |-> {}, relevant_models |-> {},
     prune_methods |-> {}, skip_imports |-> FALSE, strip_metadata |-> FALSE,
     header_path |-> ""]

FlagCount(r) ==
    (IF r.relevant_models # {} THEN 1 ELSE 0) + (IF r.skip_imports THEN 1 ELSE 0)
    + (IF r.strip_metadata THEN 1 ELSE 0) + (IF r.header_path # "" THEN 1 ELSE 0)

Requests ==
    {r \in [shrink_level : Levels,
            expand_models : {{}, {NA}, {NAB}},
            relevant_models : {{}, {NAB}},
            prune_methods : {{}} \cup {{e} : e \in PruneEntries},
            skip_imports : BOOLEAN,
            strip_metadata : BOOLEAN,
            header_path : {"", "m.py"}] : FlagCount(r) <= MaxFlags}

\* the orders in which a run may visit the elements of its sets
Seeds ==
    [names : {<<NA, NAB>>, <<NAB, NA>>},
     prunes : {<<Append(NA, "m"), Append(NAB, "m")>>, <<Append(NAB, "m"), Append(NA, "m")>>}]

EmptyResult == [text |-> "", parts |-> <<>>, chunks |-> <<>>, matched |-> {}, suffix |-> NoSuffix]

-----------------------------------------------------------------------------
(* The shrinker as its callers drive it: the harvest scans the parsed file *)
(* for model stats, then the file is shrunk.                               *)

ScanIdle ==
    /\ addon = <<>>
    /\ mode = [shrink_mode |-> "none", prune_mode |-> "soft", in_target |-> FALSE,
               relevant_models |-> {}, expand_models |-> {}]
    /\ scanIdx = 1
    /\ found = <<>>
    /\ shrunk = <<>>
    /\ scanPc = "idle"

EmptyContext ==
    [selected_addon_names |-> {}, excluded_addons |-> {}, expand_models_set |-> {},
     target_addon_names |-> <<>>, addon_models |-> <<>>, relevant_models |-> {},
     pruned_addons |-> <<>>, found_files_list |-> <<>>, addon_files_map |-> <<>>,
     implicit_addons_paths |-> {}, directory_mode_path |-> <<>>, index |-> 1]
Running == [exit_code |-> 0, message |-> "", actions |-> {}]
Exit(code, message) == [exit_code |-> code, message |-> message, actions |-> {}]

CliIdle ==
    /\ cmd = [addon_name |-> "", exclude |-> {}, no_exclude |-> {}, prune_mode |-> "soft",
              auto_expand |-> TRUE, add_expand |-> {}, focus_models |-> {},
              output_file |-> FALSE, clipboard |-> FALSE, edit |-> FALSE,
              order |-> <<>>]
    /\ ctx = EmptyContext
    /\ cliPc = "idle"
    /\ term = Running

Init ==
    /\ file \in Files
    /\ req \in Requests
    /\ pc = "parsed"
    /\ stats = NoStats
    /\ out = EmptyResult
    /\ ScanIdle
    /\ CliIdle

Harvest ==
    /\ pc = "parsed"
    /\ stats' = GetOdooModelStats(file)
    /\ pc' = "scanned"
    /\ UNCHANGED <<file, req, out>>
    /\ UNCHANGED scanVars
    /\ UNCHANGED cliVars

Shrink ==
    /\ pc = "scanned"
    /\ \E seed \in Seeds : out' = ShrinkPythonFile(file, req, seed)
    /\ pc' = "shrunk"
    /\ UNCHANGED <<file, req, stats>>
    /\ UNCHANGED scanVars
    /\ UNCHANGED cliVars

Next == Harvest \/ Shrink

Spec == Init /\ [][Next]_vars

-----------------------------------------------------------------------------
(* A class under edit: one model class that grows by a field, a method or  *)
(* ten lines at a time; the harvest rescans it after every edit, and the   *)
(* class is shrunk at the level soft in the end.                           *)

\* def p(self): with a body of one line
MethodP == FuncDef(<<>>, "p", <<"pass">>)
\* def q(self): with a body of three lines
MethodQ == FuncDef(<<>>, "q", <<"y = 2", "y += 1", "return y">>)

\* k = fields.Integer()
FieldK == Assign(<<"k">>, CallRhs("fields", "Integer", <<>>))

EditFields == {FieldF, FieldK}
EditMethods == {MethodM, MethodN, MethodP, MethodQ}

EditedBody == file[1].body
BlockCount == Cardinality({i \in 1..Len(EditedBody) : EditedBody[i] = Doc}) \div 10

\* the file after decls are appended to the body of its class
WithDecls(decls) == <<ClassDef(file[1].name, EditedBody \o decls)>> \o Tail(file)

\* a second class of the model 'a', of six lines:
\* class A: _inherit = 'a', def q(self) with its three lines
ExtensionClass == ClassDef("A", <<Assign(Underscore("inherit"), StrRhs(NA)), MethodQ>>)

EditInit ==
    /\ file = <<ClassDef("A", <<NameA>>)>>
    /\ req = DefaultRequest
    /\ pc = "scanned"
    /\ stats = GetOdooModelStats(file)
    /\ out = EmptyResult
    /\ ScanIdle
    /\ CliIdle

AddField ==
    /\ pc = "scanned"
    /\ FieldsCount(EditedBody) < MaxFields
    /\ \E f \in EditFields : file' = WithDecls(<<f>>)
    /\ stats' = GetOdooModelStats(file')
    /\ UNCHANGED <<req, pc, out>>
    /\ UNCHANGED scanVars
    /\ UNCHANGED cliVars

AddMethod ==
    /\ pc = "scanned"
    /\ MethodsCount(EditedBody) < MaxMethods
    /\ \E f \in EditMethods : file' = WithDecls(<<f>>)
    /\ stats' = GetOdooModelStats(file')
    /\ UNCHANGED <<req, pc, out>>
    /\ UNCHANGED scanVars
    /\ UNCHANGED cliVars

AddTenLines ==
    /\ pc = "scanned"
    /\ BlockCount < MaxBlocks
    /\ file' = WithDecls([i \in 1..10 |-> Doc])
    /\ stats' = GetOdooModelStats(file')
    /\ UNCHANGED <<req, pc, out>>
    /\ UNCHANGED scanVars
    /\ UNCHANGED cliVars

\* the file gets a second class that extends the same model
AddClass ==
    /\ pc = "scanned"
    /\ Len(file) = 1
    /\ file' = Append(file, ExtensionClass)
    /\ stats' = GetOdooModelStats(file')
    /\ UNCHANGED <<req, pc, out>>
    /\ UNCHANGED scanVars
    /\ UNCHANGED cliVars

EditNext == AddField \/ AddMethod \/ AddTenLines \/ AddClass \/ Shrink

SpecEdit == EditInit /\ [][EditNext]_vars

-----------------------------------------------------------------------------
(* scanner.py: the loop of scan_addon_files over the files it keeps, from  *)
(* the point where a file has passed the include filters.                  *)

ReturnArity == 3    \* shrink_python_file returns (content, expanded models, header suffix)
UnpackArity == 2    \* scan_addon_files unpacks the result into two names

\* get_file_odoo_models: the models of a file, none when it cannot be read
GetFileOdooModels(f) == IF f.readable THEN DOMAIN GetOdooModelStats(f.nodes) ELSE {}

IsShrinkablePy(f) == f.suffix = ".py" /\ f.name # "__manifest__.py"

\* the decision taken from shrink_mode: whether to shrink, and how hard
ShrinkDecision(shrink_mode, file_is_relevant, file_in_target_addon) ==
    CASE shrink_mode = "soft" -> [should_shrink |-> ~file_in_target_addon, aggressive |-> FALSE]
      [] shrink_mode = "medium" ->
            IF file_is_relevant /\ file_in_target_addon
            THEN [should_shrink |-> FALSE, aggressive |-> FALSE]
            ELSE IF file_is_relevant THEN [should_shrink |-> TRUE, aggressive |-> FALSE]
            ELSE [should_shrink |-> TRUE, aggressive |-> TRUE]
      [] shrink_mode = "hard" -> [should_shrink |-> TRUE, aggressive |-> TRUE]
      [] OTHER -> [should_shrink |-> FALSE, aggressive |-> FALSE]

\* the call of shrink_python_file and the unpacking of its result raise when
\* the file cannot be read, and when the tuple does not have as many items as
\* the names it is unpacked into
ShrinkCallRaises(f) == ~f.readable \/ ReturnArity # UnpackArity

\* what the call stores for a file
ShrunkenEntry(f, m, aggressive, seed) ==
    [aggressive |-> aggressive,
     result |-> ShrinkPythonFile(f.nodes,
                   [DefaultRequest EXCEPT !.shrink_level = ResolveLevel("None", aggressive),
                                          !.expand_models = m.expand_models],
                   seed)]

\* file_models: the models of a Python file, looked up only when a mode needs them
FileModels(f, m) ==
    IF /\ IsShrinkablePy(f)
       /\ \/ m.prune_mode = "medium" /\ ~m.in_target
          \/ m.shrink_mode # "none"
    THEN GetFileOdooModels(f) ELSE {}

\* file-level pruning (medium): a dependency's file without a relevant model
FilePruned(f, m) ==
    /\ m.prune_mode = "medium"
    /\ ~m.in_target
    /\ IsShrinkablePy(f)
    /\ FileModels(f, m) \cap m.relevant_models = {}

FileDecision(f, m) ==
    IF m.shrink_mode # "none" /\ IsShrinkablePy(f)
    THEN ShrinkDecision(m.shrink_mode,
                        \E x \in FileModels(f, m) : x \in m.relevant_models, m.in_target)
    ELSE [should_shrink |-> FALSE, aggressive |-> FALSE]

\* how one turn of the loop ends for a file: it is skipped, the shrinking
\* raises out of scan_addon_files, or the file is appended to found_files
TurnOutcome(f, m, found_files) ==
    IF f.path \in Range(found_files) \/ FilePruned(f, m) THEN "skip"
    ELSE IF FileDecision(f, m).should_shrink /\ ShrinkCallRaises(f) THEN "raise"
    ELSE "keep"

\* shrunken_files_content and shrunken_files_info after a turn that keeps the file
Stored(entries, f, m, seed) ==
    IF FileDecision(f, m).should_shrink
    THEN [p \in DOMAIN entries \cup {f.path} |->
            IF p = f.path THEN ShrunkenEntry(f, m, FileDecision(f, m).aggressive, seed)
            ELSE entries[p]]
    ELSE entries

SampleSources == {<<ClassDef("A", <<NameA, MethodM>>)>>, <<Import("os"), PlainX>>}

AddonFiles ==
    {[path |-> "models/m.py", name |-> "m.py", suffix |-> ".py", readable |-> rd, nodes |-> src] :
        rd \in BOOLEAN, src \in SampleSources}
    \cup {[path |-> "models/w.py", name |-> "w.py", suffix |-> ".py", readable |-> TRUE,
           nodes |-> src] : src \in SampleSources}
    \cup {[path |-> "__manifest__.py", name |-> "__manifest__.py", suffix |-> ".py",
           readable |-> TRUE, nodes |-> <<>>],
          [path |-> "views/v.xml", name |-> "v.xml", suffix |-> ".xml",
           readable |-> TRUE, nodes |-> <<>>]}

ScanModes ==
    [shrink_mode : {"none", "soft", "medium", "hard", "extreme"},
     prune_mode : {"soft", "medium"},
     in_target : BOOLEAN,
     relevant_models : {{}, {NA}},
     expand_models : {{}, {NA}}]

ScanInit ==
    /\ file = <<>>
    /\ req = DefaultRequest
    /\ pc = "idle"
    /\ stats = NoStats
    /\ out = EmptyResult
    /\ addon \in SeqsUpTo(AddonFiles, MaxFiles)
    /\ mode \in ScanModes
    /\ scanIdx = 1
    /\ found = <<>>
    /\ shrunk = <<>>
    /\ scanPc = "scanning"
    /\ CliIdle

\* one turn of the loop, for the file at scanIdx
ScanFile ==
    /\ scanPc = "scanning"
    /\ scanIdx <= Len(addon)
    /\ LET outcome == TurnOutcome(addon[scanIdx], mode, found)
       IN /\ scanPc' = IF outcome = "raise" THEN "raised" ELSE scanPc
          /\ scanIdx' = IF outcome = "raise" THEN scanIdx ELSE scanIdx + 1
          /\ found' = IF outcome = "keep" THEN Append(found, addon[scanIdx].path) ELSE found
          /\ \E seed \in Seeds :
                shrunk' = IF outcome = "keep" THEN Stored(shrunk, addon[scanIdx], mode, seed)
                          ELSE shrunk
    /\ UNCHANGED <<addon, mode>>
    /\ UNCHANGED shrinkVars
    /\ UNCHANGED cliVars

\* the loop is over: scan_addon_files returns found_files
ScanReturn ==
    /\ scanPc = "scanning"
    /\ scanIdx > Len(addon)
    /\ scanPc' = "returned"
    /\ UNCHANGED <<addon, mode, scanIdx, found, shrunk>>
    /\ UNCHANGED shrinkVars
    /\ UNCHANGED cliVars

ScanNext == ScanFile \/ ScanReturn

SpecScan == ScanInit /\ [][ScanNext]_vars

-----------------------------------------------------------------------------
(* Reading a result: the classes of the file, what each declares, and what *)
(* the output holds for each.                                              *)

ClassIdx == {i \in 1..Len(file) : file[i].type = "class_definition"}
Names(i) == GetOdooModelNamesFromBody(file[i].body)
Expanded(i) == Names(i) \cap req.expand_models # {}
Chunk(i) == out.chunks[i]

\* a force-prune entry "{entity}.{method}" on one of the names: the name, a
\* dot, and one identifier
QualifiedPruneOn(names) ==
    \E pm \in req.prune_methods, m \in names : Len(pm) = Len(m) + 1 /\ SubSeq(pm, 1, Len(m)) = m

\* the methods of class i that the force-prune set names
PrunedMethods(i) ==
    {k \in 1..Len(file[i].body) :
        /\ IsFunction(file[i].body[k])
        /\ \E m \in Names(i) : Append(m, file[i].body[k].name) \in req.prune_methods}

MarkerOf(i) == "# FILEPATH: " \o req.header_path \o LineRangeStr(file, i)

\* the text a chunk contributes, its marker and blank parts left out
ChunkBody(i) == SelectSeq(Chunk(i), LAMBDA p : p # "" /\ p # MarkerOf(i))
ChunkText(i) == Join(ChunkBody(i), "\n")

\* the field line of a declaration with the keyword arguments of some keys left out
LineWithout(child, keys) ==
    IdentText(child.lhs) \o " = "
    \o CallText(child.right.obj, child.right.attr,
                ArgTexts(SelectSeq(child.right.args,
                            LAMBDA a : ~(a.type = "keyword_argument" /\ a.key \in keys))))

\* the compute argument of a declaration as it is written, whatever its value is
ComputeArgs(child) ==
    IF IsAssignment(child) /\ child.right.type = "call"
    THEN SelectSeq(child.right.args, LAMBDA a : a.type = "keyword_argument" /\ a.key = "compute")
    ELSE <<>>
HasComputeArg(child) == ComputeArgs(child) # <<>>
HasStringCompute(child) ==
    \E k \in 1..Len(ComputeArgs(child)) :
        ComputeArgs(child)[k].vtype = "string" /\ Dotted(ComputeArgs(child)[k].val) # ""
ComputedLabel(child) ==
    IdentText(child.lhs)
    \o (IF HasComputeArg(child)
        THEN " (" \o Dotted(ComputeArgs(child)[Len(ComputeArgs(child))].val) \o ")"
        ELSE "")

PlainPrefix == "    # Shrunk non computed fields: "
ComputedPrefix == "    # Shrunk computed_fields: "

\* the declarations of a body picked by a set of positions, in body order
Picked(body, K) == SelectSeq([k \in 1..Len(body) |-> k], LAMBDA k : k \in K)
AssignIdx(body) == {k \in 1..Len(body) : IsAssignment(body[k])}

\* the declarations of class i whose name the summary line of plain fields lists
ListedPlain(i) ==
    {k \in AssignIdx(file[i].body) :
        \E K \in SUBSET AssignIdx(file[i].body) :
            /\ k \in K
            /\ PlainPrefix \o Join([j \in 1..Len(Picked(file[i].body, K)) |->
                                       IdentText(file[i].body[Picked(file[i].body, K)[j]].lhs)], ", ")
                 \in Range(Chunk(i))}

\* the declarations of class i that the summary line of computed fields lists,
\* each with its compute method
ListedComputed(i) ==
    {k \in AssignIdx(file[i].body) :
        \E K \in SUBSET AssignIdx(file[i].body) :
            /\ k \in K
            /\ ComputedPrefix \o Join([j \in 1..Len(Picked(file[i].body, K)) |->
                                          ComputedLabel(file[i].body[Picked(file[i].body, K)[j]])], ", ")
                 \in Range(Chunk(i))}

-----------------------------------------------------------------------------
(* Claims.                                                                 *)

\* C1: a class one of whose entity names is in the expand set, and on whose
\* names the force-prune set holds no "{entity}.{method}" entry, is emitted
\* with its whole source text, at every level.
C1_ExpandedClassVerbatim ==
    pc = "shrunk" =>
        \A i \in ClassIdx :
            Expanded(i) /\ ~QualifiedPruneOn(Names(i)) => ChunkText(i) = ClassText(file[i])

\* C2: a method whose qualified name "{entity}.{method}" is in the force-prune
\* set is never in the output with its original body: neither its own text nor
\* the text of its class is a part of what the class contributes, also when
\* the class is expanded.
C2_PrunedMethodBodyGone ==
    pc = "shrunk" =>
        \A i \in ClassIdx : \A k \in PrunedMethods(i) :
            /\ ClassText(file[i]) \notin Range(Chunk(i))
            /\ \A col \in {0, 4} : FuncText(file[i].body[k], col) \notin Range(Chunk(i))
            /\ \A col \in {0, 4} : Ind4 \o FuncText(file[i].body[k], col) \notin Range(Chunk(i))

\* C2, its case: an expanded class with a force-pruned method, whose header
\* is followed by the placeholder
C2_Witness ==
    /\ pc = "shrunk"
    /\ \E i \in ClassIdx :
          /\ Expanded(i)
          /\ PrunedMethods(i) # {}
          /\ Ind4 \o "    pass  # pruned by request" \in Range(Chunk(i))

\* C3: the matched names are requested names, and they are exactly the
\* requested names that get_odoo_model_stats finds declared in the file.
C3_MatchedAreScannedRequested ==
    pc = "shrunk" =>
        /\ out.matched \subseteq req.expand_models
        /\ out.matched = req.expand_models \cap DOMAIN stats

\* the length of the output of the same file and request at a level
LengthAt(level) ==
    IF level = req.shrink_level THEN Len(out.text)
    ELSE Len(ShrinkPythonFile(file, [req EXCEPT !.shrink_level = level],
                              CHOOSE s \in Seeds : TRUE).text)

\* C4 as stated: the output lengths are ordered by level,
\* extreme <= hard <= soft <= none.
C4_LengthChain ==
    pc = "shrunk" =>
        /\ LengthAt("extreme") <= LengthAt("hard")
        /\ LengthAt("hard") <= LengthAt("soft")
        /\ LengthAt("soft") <= LengthAt("none")

\* C4 as amended: the output at level hard is never longer than the output
\* at level soft.
C4_HardWithinSoft == pc = "shrunk" => LengthAt("hard") <= LengthAt("soft")

\* C4, its case: a file whose output at hard is shorter than at soft
C4_Witness ==
    /\ pc = "shrunk"
    /\ req.shrink_level \in {"hard", "soft"}
    /\ LengthAt("hard") < LengthAt("soft")

\* what a top-level node must leave in the output for nothing of it to be
\* lost: its text; for a class its header and every declaration of its body,
\* whose first line may have lost or kept its indentation
MemberText(child) == Join(MemberLines(child, 4), "\n")
Carried(i) ==
    IF file[i].type = "class_definition"
    THEN \/ ChunkText(i) = ClassText(file[i])
         \/ /\ Len(ChunkBody(i)) = Len(file[i].body) + 1
            /\ ChunkBody(i)[1] = ClassHeader(file[i])
            /\ \A k \in 1..Len(file[i].body) :
                  ChunkBody(i)[k + 1] \in {MemberText(file[i].body[k]),
                                           Ind4 \o MemberText(file[i].body[k])}
    ELSE ChunkText(i) = NodeText(file[i])

\* C5: at level none, with nothing force-pruned (and no import skipping or
\* metadata stripping asked for), every top-level statement and every
\* declaration of a class body is in the output.
C5_NoneLosesNothing ==
    pc = "shrunk" /\ req.shrink_level = "none" /\ req.prune_methods = {}
                  /\ ~req.skip_imports /\ ~req.strip_metadata
        => \A i \in 1..Len(file) : Carried(i)

\* the files of the scan whose shrinking raises
RaisingFiles ==
    {k \in 1..Len(addon) :
        /\ ~FilePruned(addon[k], mode)
        /\ FileDecision(addon[k], mode).should_shrink
        /\ ShrinkCallRaises(addon[k])}

\* C6: a file whose shrinking raises does not end the scan: the loop goes on
\* to its end and the file is in the result, with no shrunken content.
C6_BadFileDoesNotAbort ==
    /\ scanPc # "raised"
    /\ scanPc = "returned" =>
          \A k \in RaisingFiles :
              addon[k].path \in Range(found) /\ addon[k].path \notin DOMAIN shrunk

\* C7: the result does not depend on the order in which the sets of names and
\* of force-prune entries are iterated: every order gives the same text, the
\* same matched names and the same header suffix.
C7_OrderIndependent ==
    pc = "shrunk" =>
        \A s \in Seeds :
            /\ ShrinkPythonFile(file, req, s).text = out.text
            /\ ShrinkPythonFile(file, req, s).matched = out.matched
            /\ ShrinkPythonFile(file, req, s).suffix = out.suffix

\* C7, its case: a class of two names with a force-pruned method
C7_Witness ==
    /\ pc = "shrunk"
    /\ \E i \in ClassIdx :
          /\ Cardinality(Names(i)) = 2
          /\ PrunedMethods(i) # {}
          /\ Ind4 \o "    pass  # pruned by request" \in Range(Chunk(i))

\* the relational fields of class i whose comodel is a relevant model
RelevantFields(i) ==
    {k \in 1..Len(file[i].body) :
        /\ GetFieldInfo(file[i].body[k]).is_field
        /\ GetFieldInfo(file[i].body[k]).type \in RelationalTypes
        /\ GetFieldInfo(file[i].body[k]).comodel \in req.relevant_models}

\* C8: at level extreme a relational field whose comodel is relevant is
\* emitted as its own line, without its help and string arguments, and
\* neither summary line of the class lists it.
C8_RelevantFieldNotSummarized ==
    pc = "shrunk" /\ req.shrink_level = "extreme" =>
        \A i \in ClassIdx : ~Expanded(i) =>
            \A k \in RelevantFields(i) :
                /\ Ind4 \o LineWithout(file[i].body[k], {"help", "string"}) \in Range(Chunk(i))
                /\ k \notin ListedPlain(i) \cup ListedComputed(i)

\* the fields of class i whose comodel is not a relevant model
OtherFields(i) ==
    {k \in 1..Len(file[i].body) :
        /\ GetFieldInfo(file[i].body[k]).is_field
        /\ GetFieldInfo(file[i].body[k]).comodel \notin req.relevant_models}

\* the lines a field could be emitted as
OwnLines(child) ==
    {Ind4 \o StmtText(child), Ind4 \o LineWithout(child, {"help"}),
     Ind4 \o LineWithout(child, {"help", "string"})}

\* at level extreme, in a class that is not expanded: a field whose comodel
\* is not relevant has no line of its own and is listed in one summary line,
\* the computed one exactly if IsComputed holds; no summary line is empty
SummarizedBy(IsComputed(_)) ==
    pc = "shrunk" /\ req.shrink_level = "extreme" =>
        \A i \in ClassIdx : ~Expanded(i) =>
            /\ \A k \in OtherFields(i) :
                  /\ OwnLines(file[i].body[k]) \cap Range(Chunk(i)) = {}
                  /\ IF IsComputed(file[i].body[k])
                     THEN k \in ListedComputed(i) /\ k \notin ListedPlain(i)
                     ELSE k \in ListedPlain(i) /\ k \notin ListedComputed(i)
            /\ PlainPrefix \notin Range(Chunk(i))
            /\ ComputedPrefix \notin Range(Chunk(i))

\* C9 as stated: the field is in the computed summary line, with its compute
\* method, if it has a compute argument, and in the other line otherwise.
C9_SummarizedByComputeArg == SummarizedBy(HasComputeArg)

\* C9 as amended: the field is in the computed summary line if it has a
\* compute argument whose value is a non-empty string literal, and in the
\* other line otherwise.
C9_SummarizedByStringCompute == SummarizedBy(HasStringCompute)

\* C9, its case: a class at level extreme with a summarized computed field
\* and a summarized plain field
C9_Witness ==
    /\ pc = "shrunk"
    /\ req.shrink_level = "extreme"
    /\ \E i \in ClassIdx :
          /\ ~Expanded(i)
          /\ \E k \in OtherFields(i) : k \in ListedComputed(i)
          /\ \E k \in OtherFields(i) : k \in ListedPlain(i)

\* the classes of the file that declare an entity, and the first of them
Bearing == {i \in ClassIdx : Names(i) # {}}
IsFirstBearing(i) == i \in Bearing /\ \A j \in Bearing : i <= j

\* the marker of class i is the part right before the source of the class
MarkerBeforeClass(i) ==
    \E p \in 1..(Len(Chunk(i)) - 1) :
        /\ Chunk(i)[p] = MarkerOf(i)
        /\ Chunk(i)[p + 1] \in {ClassText(file[i]), ClassHeader(file[i])}

\* in a file of several entity-bearing classes: an expanded first class sets
\* the header suffix to its line range and gets no marker; a later expanded
\* class gets its marker right before its source exactly if Marked holds
MarkersWhen(Marked) ==
    pc = "shrunk" /\ Cardinality(Bearing) > 1 =>
        \A i \in Bearing : Expanded(i) =>
            IF IsFirstBearing(i)
            THEN out.suffix = LineRangeStr(file, i) /\ MarkerOf(i) \notin Range(Chunk(i))
            ELSE IF Marked THEN MarkerBeforeClass(i)
            ELSE \A p \in Range(Chunk(i)) : p \notin {MarkerOf(i), "# FILEPATH: None" \o LineRangeStr(file, i)}

\* C10 as stated: every expanded entity-bearing class after the first gets
\* the marker line right before its source.
C10_MarkerForEveryLaterClass == MarkersWhen(TRUE)

\* C10 as amended: it gets the marker exactly when the caller gave a
\* non-empty header path; without one no marker is inserted.
C10_MarkerWhenHeaderPath == MarkersWhen(req.header_path # "")

\* C10, its case: two expanded entity-bearing classes and a header path
C10_Witness ==
    /\ pc = "shrunk"
    /\ req.header_path # ""
    /\ \E i, j \in Bearing :
          /\ i < j
          /\ Expanded(i) /\ Expanded(j)
          /\ out.suffix = LineRangeStr(file, i)
          /\ MarkerBeforeClass(j)

-----------------------------------------------------------------------------
(* Claims on the class under edit.                                         *)

\* the score get_odoo_model_stats gives the model of the class under edit
ScoreOf(st) == IF NA \in DOMAIN st THEN st[NA].score ELSE 0

\* C11: adding one field, one method or ten body lines to a class never
\* decreases the score get_odoo_model_stats computes for its model.
C11_ScoreNeverDecreases ==
    [][(AddField \/ AddMethod \/ AddTenLines) => ScoreOf(stats') >= ScoreOf(stats)]_vars

\* a class that got fields, methods and ten lines, whose line count has
\* passed a multiple of ten, and whose score counts all three terms
C11_Witness ==
    /\ pc = "scanned"
    /\ FieldsCount(EditedBody) >= 2
    /\ MethodsCount(EditedBody) = 2
    /\ BlockCount = 1
    /\ Len(SourceLines(file)) >= 20
    /\ ScoreOf(stats) = FieldsCount(EditedBody) + 3 * MethodsCount(EditedBody) + 4

\* a class that declares an entity name, 3 plain fields and 2 methods, shrunk
\* at the level soft
PlainFieldCount(body) ==
    Cardinality({i \in 1..Len(body) :
        /\ IsAssignment(body[i])
        /\ GetFieldInfo(body[i]).is_field
        /\ GetFieldInfo(body[i]).compute = None})
ThreeFieldsTwoMethodsShrunk ==
    /\ pc = "shrunk"
    /\ req.shrink_level = "soft"
    /\ Len(file) = 1
    /\ file[1].type = "class_definition"
    /\ GetOdooModelNameFromBody(EditedBody) # None
    /\ PlainFieldCount(EditedBody) = 3
    /\ MethodsCount(EditedBody) = 2

\* the lines of the input and of the output; at the level soft every part of
\* the output is one line
InputLineCount == Len(SourceLines(file))
OutputLineCount == Len(out.parts)
HasLongMethod == \E i \in 1..Len(EditedBody) :
                    IsFunction(EditedBody[i]) /\ Len(EditedBody[i].body) > 1
HasOtherStatement == \E i \in 1..Len(EditedBody) :
                        ~IsFunction(EditedBody[i]) /\ ~IsAssignment(EditedBody[i])

-----------------------------------------------------------------------------
(* Claims on the model stats.                                              *)

\* the string values a class body assigns to a marker (_name or _inherit)
MarkerValues(body, marker) ==
    {body[i].right.names[1] :
        i \in {j \in 1..Len(body) : /\ IsAssignment(body[j])
                                    /\ IdentText(body[j].lhs) = marker
                                    /\ body[j].right.type = "string"}}
HasBothMarkers(body) ==
    MarkerValues(body, "_name") # {} /\ MarkerValues(body, "_inherit") # {}

\* C22: a class body with a string _name and a string _inherit is scored
\* under its _name value, whatever the order of the two assignments.
C22_NameWinsOverInherit ==
    pc # "parsed" =>
        \A k \in 1..Len(ScannedClasses(file)) :
            LET body == ScannedClasses(file)[k].cls.body
            IN HasBothMarkers(body) =>
                /\ MarkerValues(body, "_name") \subseteq DOMAIN stats
                /\ Len(ScannedClasses(file)) = 1 => DOMAIN stats = MarkerValues(body, "_name")

\* the classes of the file that the stats attribute to the model n, and their
\* line counts
ClassesOf(n) ==
    {k \in 1..Len(ScannedClasses(file)) :
        GetOdooModelNameFromBody(ScannedClasses(file)[k].cls.body) = n}
LinesOf(k) == Len(ClassLines(ScannedClasses(file)[k].cls, ScannedClasses(file)[k].col))
RECURSIVE SumOver(_, _)
SumOver(ks, f) == IF ks = {} THEN 0
                  ELSE LET k == CHOOSE x \in ks : TRUE IN f[k] + SumOver(ks \ {k}, f)
AccumulatedLines(n) == SumOver(ClassesOf(n), [k \in ClassesOf(n) |-> LinesOf(k)])
AccumulatedLineTens(n) == SumOver(ClassesOf(n), [k \in ClassesOf(n) |-> LinesOf(k) \div 10])

\* C23: the stats of a model declared by several classes of one file add up,
\* and its score is fields * 1 + methods * 3 + (lines div 10) * 2 over the
\* accumulated field, method and line counts of these classes.
C23_ScoreFromAccumulatedCounts ==
    \A n \in DOMAIN stats :
        stats[n].score = stats[n].fields * 1 + stats[n].methods * 3
                         + (AccumulatedLines(n) \div 10) * 2

\* C23 as amended: the field and method counts and the scores of the classes
\* add up; each class contributes to the score the tens of its own line
\* count, so the lines of different classes are never added before dividing.
C23_ScoreIsSumOfClassScores ==
    \A n \in DOMAIN stats :
        /\ stats[n].fields =
              SumOver(ClassesOf(n), [k \in ClassesOf(n) |->
                        FieldsCount(ScannedClasses(file)[k].cls.body)])
        /\ stats[n].methods =
              SumOver(ClassesOf(n), [k \in ClassesOf(n) |->
                        MethodsCount(ScannedClasses(file)[k].cls.body)])
        /\ stats[n].score = stats[n].fields * 1 + stats[n].methods * 3
                            + AccumulatedLineTens(n) * 2
        /\ stats[n].score <= stats[n].fields * 1 + stats[n].methods * 3
                             + (AccumulatedLines(n) \div 10) * 2

\* two classes of the model 'a' whose line counts have remainders that add up
\* to ten or more: the score is two points below the one of the joint count
C23_Witness ==
    /\ ClassesOf(NA) = {1, 2}
    /\ (LinesOf(1) % 10) + (LinesOf(2) % 10) >= 10
    /\ stats[NA].methods >= 2
    /\ stats[NA].score = stats[NA].fields + 3 * stats[NA].methods
                         + (AccumulatedLines(NA) \div 10) * 2 - 2

\* the declarations of the classes of n that _get_field_info classifies as
\* fields, and the function definitions of these classes
FieldDeclarations(n) ==
    {<<k, i>> \in ClassesOf(n) \X (1..MaxDecls) :
        /\ i <= Len(ScannedClasses(file)[k].cls.body)
        /\ GetFieldInfo(ScannedClasses(file)[k].cls.body[i]).is_field}
MethodDeclarations(n) ==
    {<<k, i>> \in ClassesOf(n) \X (1..MaxDecls) :
        /\ i <= Len(ScannedClasses(file)[k].cls.body)
        /\ IsFunction(ScannedClasses(file)[k].cls.body[i])}

\* C24: the field count of a model is the number of declarations classified
\* as fields, assignments that are no fields add nothing, and every method,
\* decorated or not, adds one to the method count.
C24_FieldCountCountsFields ==
    pc # "parsed" =>
        \A n \in DOMAIN stats :
            /\ stats[n].fields = Cardinality(FieldDeclarations(n))
            /\ stats[n].methods = Cardinality(MethodDeclarations(n))

-----------------------------------------------------------------------------
(* Claims on the declarations of a rebuilt class.                          *)

\* the declarations of class i that are neither fields nor methods
OtherDeclarations(i) ==
    {k \in 1..Len(file[i].body) :
        ~IsFunction(file[i].body[k]) /\ ~GetFieldInfo(file[i].body[k]).is_field}

\* C25: in a class that is not emitted verbatim, every declaration that is
\* neither a field nor a method is a line of the output, as written or with
\* its metadata stripped when stripping is asked for, at every level.
C25_OtherDeclarationsKept ==
    pc = "shrunk" =>
        \A i \in ClassIdx :
            ChunkText(i) # ClassText(file[i]) =>
                \A k \in OtherDeclarations(i) :
                    \/ Ind4 \o StmtText(file[i].body[k]) \in Range(Chunk(i))
                    \/ /\ req.strip_metadata
                       /\ IsAssignment(file[i].body[k])
                       /\ Ind4 \o CleanLine(file[i].body[k], TRUE) \in Range(Chunk(i))

-----------------------------------------------------------------------------
(* Claims on the functions of the output.                                  *)

\* what the four cases give for a function: its header lines at the indent
\* and one placeholder line, nothing, or its source text
HeaderWith(node, indent, line) ==
    [j \in 1..Len(HeaderLines(node)) |-> indent \o HeaderLines(node)[j]]
    \o <<indent \o "    " \o line>>
DecidedParts(node, indent, col, forced, level) ==
    IF forced THEN HeaderWith(node, indent, "pass  # pruned by request")
    ELSE IF level \in {"hard", "extreme"} THEN <<>>
    ELSE IF level = "soft" THEN HeaderWith(node, indent, "pass  # shrunk")
    ELSE <<FuncText(node, col)>>
\* every form a function can take in the output
Forms(node, indent, col) ==
    {DecidedParts(node, indent, col, forced, level) : forced \in BOOLEAN, level \in Levels}
    \ {<<>>}
\* sub is a run of consecutive parts of seq
OccursIn(seq, sub) ==
    \E p \in 0..(Len(seq) - Len(sub)) : \A j \in 1..Len(sub) : seq[p + j] = sub[j]

\* the level a class is processed at, and the classes that are rebuilt
\* declaration by declaration
LevelOf(i) == IF Expanded(i) THEN "none" ELSE req.shrink_level
Rebuilt(i) == ChunkText(i) # ClassText(file[i])
MethodIdx(i) == {k \in 1..Len(file[i].body) : IsFunction(file[i].body[k])}

\* C26: a function is emitted in the form its case gives, and in no other:
\* force-pruned, its header and 'pass  # pruned by request' at every level;
\* else nothing at hard and extreme; else its header and 'pass  # shrunk' at
\* soft; else, at none, its source text.
C26_FunctionDecidedByPriority ==
    pc = "shrunk" =>
        /\ \A i \in 1..Len(file) :
              IsFunction(file[i]) =>
                  ChunkBody(i) = DecidedParts(file[i], "", 0, FALSE, req.shrink_level)
        /\ \A i \in ClassIdx :
              Rebuilt(i) =>
                  \A k \in MethodIdx(i) : \A form \in Forms(file[i].body[k], Ind4, 4) :
                      OccursIn(Chunk(i), form)
                      <=> form = DecidedParts(file[i].body[k], Ind4, 4,
                                              k \in PrunedMethods(i), LevelOf(i))

\* a force-pruned method of a class shrunk at hard or extreme: its header
\* and the placeholder of the request are in the output
C26_Witness ==
    /\ pc = "shrunk"
    /\ req.shrink_level \in {"hard", "extreme"}
    /\ \E i \in ClassIdx :
          /\ ~Expanded(i)
          /\ \E k \in PrunedMethods(i) :
                OccursIn(Chunk(i), <<Ind4 \o Signature(file[i].body[k]),
                                     Ind4 \o "    pass  # pruned by request">>)

\* C27: a class whose entity is in the expand set and on whose names the
\* force-prune set holds an entry is processed at the level none whatever
\* level is requested: its assignments are emitted as written, also when
\* strip_metadata is set; its methods that are not named are emitted with
\* their body; the named methods alone get the placeholder of the request;
\* and its requested names are in the matched set.
C27_ExpandedWithPrunesAtNone ==
    pc = "shrunk" =>
        \A i \in ClassIdx :
            Expanded(i) /\ QualifiedPruneOn(Names(i)) =>
                /\ \A k \in AssignIdx(file[i].body) :
                      /\ Ind4 \o StmtText(file[i].body[k]) \in Range(Chunk(i))
                      /\ CleanLine(file[i].body[k], TRUE) # StmtText(file[i].body[k]) =>
                            Ind4 \o CleanLine(file[i].body[k], TRUE) \notin Range(Chunk(i))
                /\ \A k \in MethodIdx(i) : \A form \in Forms(file[i].body[k], Ind4, 4) :
                      OccursIn(Chunk(i), form)
                      <=> form = DecidedParts(file[i].body[k], Ind4, 4,
                                              k \in PrunedMethods(i), "none")
                /\ Names(i) \cap req.expand_models \subseteq out.matched

\* an expanded class with a force-prune entry on its name, shrunk at extreme
\* with strip_metadata set: its field keeps its help argument
C27_Witness ==
    /\ pc = "shrunk"
    /\ req.shrink_level = "extreme"
    /\ req.strip_metadata
    /\ \E i \in ClassIdx :
          /\ Expanded(i) /\ QualifiedPruneOn(Names(i))
          /\ \E k \in AssignIdx(file[i].body) :
                /\ file[i].body[k] = FieldF
                /\ Ind4 \o StmtText(FieldF) \in Range(Chunk(i))
          /\ NA \in out.matched

-----------------------------------------------------------------------------
(* Claims on the target entity of a relational field.                      *)

\* the arguments of a call that are no keyword arguments, in call order
PositionalArgs(args) == SelectSeq(args, LAMBDA a : a.type # "keyword_argument")
\* the string values given to the keyword comodel_name
ComodelKeywords(args) ==
    SelectSeq(args, LAMBDA a : a.type = "keyword_argument" /\ a.key = "comodel_name"
                               /\ a.vtype = "string")
\* the first positional argument when it is a string, else the keyword
\* comodel_name, else nothing
FirstPositionalOrKeyword(args) ==
    IF PositionalArgs(args) # <<>> /\ PositionalArgs(args)[1].type = "string"
    THEN PositionalArgs(args)[1].val
    ELSE IF ComodelKeywords(args) # <<>> THEN ComodelKeywords(args)[1].val
    ELSE None
RelationalFields(i) ==
    {k \in AssignIdx(file[i].body) :
        /\ GetFieldInfo(file[i].body[k]).is_field
        /\ GetFieldInfo(file[i].body[k]).type \in RelationalTypes}

\* C28: the target entity recorded for a relational field is its first
\* positional argument when that is a string literal, else the value of the
\* keyword comodel_name, else nothing; a later positional string is never
\* recorded, so at extreme such a field is not emitted as a relevant one.
C28_ComodelFromFirstPositional ==
    pc = "shrunk" =>
        \A i \in ClassIdx : \A k \in RelationalFields(i) :
            /\ GetFieldInfo(file[i].body[k]).comodel
                   = FirstPositionalOrKeyword(file[i].body[k].right.args)
            /\ (/\ req.shrink_level = "extreme" /\ ~Expanded(i)
                /\ FirstPositionalOrKeyword(file[i].body[k].right.args) \notin req.relevant_models)
                  => Ind4 \o StripFieldMetadata(file[i].body[k]) \notin Range(Chunk(i))

-----------------------------------------------------------------------------
(* Claims on the shrink modes of the scan.                                 *)

\* the scan of the addon is over: it returned, or an exception left it
ScanOver == scanPc \in {"returned", "raised"}

\* the Python files of the addon that are no manifest and that the scan
\* does not prune
ScannedPy == {k \in 1..Len(addon) : IsShrinkablePy(addon[k]) /\ ~FilePruned(addon[k], mode)}

\* shrunken content is recorded for the file, made with the given flag
ShrunkWith(k, aggressive) ==
    /\ addon[k].path \in DOMAIN shrunk
    /\ shrunk[addon[k].path].aggressive = aggressive

\* C13: with --shrink=soft every non-manifest Python file of a dependency
\* addon gets soft-shrunk content recorded, and no Python file of a selected
\* target addon is shrunk.
C13_SoftShrinksDependenciesOnly ==
    (mode.shrink_mode = "soft" /\ ScanOver) =>
        \A k \in ScannedPy :
            IF mode.in_target THEN addon[k].path \notin DOMAIN shrunk
            ELSE ShrunkWith(k, FALSE)

\* C14: with --shrink=hard the Python files of a selected target addon are
\* shrunk at the level soft and those of a dependency addon at the level hard.
C14_HardShrinksTargetsSoft ==
    (mode.shrink_mode = "hard" /\ ScanOver) =>
        \A k \in ScannedPy :
            /\ FileDecision(addon[k], mode) = [should_shrink |-> TRUE, aggressive |-> ~mode.in_target]
            /\ ShrunkWith(k, ~mode.in_target)

\* C15: with --shrink=extreme every non-manifest Python file of every scanned
\* addon, target or dependency, is shrunk at the most aggressive level.
C15_ExtremeShrinksEverything ==
    (mode.shrink_mode = "extreme" /\ ScanOver) =>
        \A k \in ScannedPy :
            /\ FileDecision(addon[k], mode) = [should_shrink |-> TRUE, aggressive |-> TRUE]
            /\ ShrunkWith(k, TRUE)

-----------------------------------------------------------------------------
(* cli.py: the command.  resolve_akaidoo_context builds the context of a   *)
(* run, step by step, and akaidoo_command_entrypoint hands the context to  *)
(* the output action the options select.  A file is the pair of its addon  *)
(* and its path in the addon.                                              *)

\* the addons of the addons path and the depends of their manifests
InstalledAddons == {"a", "b", "base"}
Depends == ("a" :> {"b", "base"}) @@ ("b" :> {}) @@ ("base" :> {})
\* the orders AddonSorterTopological may give them: dependencies first
TopologicalOrders == {<<"b", "base", "a">>, <<"base", "b", "a">>}

FRAMEWORK_ADDONS == {"base", "web"}
BLACKLIST_AUTO_EXPAND == {<<"res", "partner">>}
BLACKLIST_RELATION_EXPAND == {<<"res", "partner">>}
AUTO_EXPAND_THRESHOLD == 7

NC == <<"c">>           \* the model 'c'
ResPartner == <<"res", "partner">>
\* models/m.py of each addon
AddonNodes ==
    ("a" :> <<ClassDef("A", <<NameA, Assign(Underscore("inherit"), ListRhs(<<NC, ResPartner>>)),
                              FieldG, MethodM, MethodN>>)>>)
    @@ ("b" :> <<ClassDef("B", <<InheritAB, FieldF>>)>>)
    @@ ("base" :> <<ClassDef("C", <<Assign(Underscore("name"), StrRhs(NC))>>)>>)
\* what get_model_relations reports for the files of each addon
AddonRelations ==
    ("a" :> (NA :> [parents |-> {NC, ResPartner}, comodels |-> {NAB}]))
    @@ ("b" :> (NAB :> [parents |-> {NA}, comodels |-> {}]))
    @@ ("base" :> (NC :> [parents |-> {}, comodels |-> {}]))

ManifestPath(x) == [addon |-> x, path |-> "__manifest__.py"]
ModelPath(x) == [addon |-> x, path |-> "models/m.py"]
\* the file system of the run, each directory by the parts of its absolute
\* path: the project directory /proj holds the addons a and b, the addon a
\* has a sub-directory dir, and the run starts in /proj/a
Cwd == <<"proj", "a">>
Directories == {<<"proj">>, <<"proj", "a">>, <<"proj", "b">>, <<"proj", "a", "dir">>}
\* the directories that hold a __manifest__.py
Manifests == {<<"proj", "a">>, <<"proj", "b">>}
\* Path(s) for each addon_name argument s: whether it is absolute and its
\* parts without the root, and s.endswith(os.path.sep)
Arguments ==
    ("a" :> [absolute |-> FALSE, parts |-> <<"a">>, ends_with_sep |-> FALSE])
    @@ ("b" :> [absolute |-> FALSE, parts |-> <<"b">>, ends_with_sep |-> FALSE])
    @@ ("base" :> [absolute |-> FALSE, parts |-> <<"base">>, ends_with_sep |-> FALSE])
    @@ ("x" :> [absolute |-> FALSE, parts |-> <<"x">>, ends_with_sep |-> FALSE])
    @@ ("dir" :> [absolute |-> FALSE, parts |-> <<"dir">>, ends_with_sep |-> FALSE])
    @@ ("dir/" :> [absolute |-> FALSE, parts |-> <<"dir">>, ends_with_sep |-> TRUE])
    @@ ("." :> [absolute |-> FALSE, parts |-> <<>>, ends_with_sep |-> FALSE])
    @@ ("/proj" :> [absolute |-> TRUE, parts |-> <<"proj">>, ends_with_sep |-> FALSE])
    @@ ("/proj/a" :> [absolute |-> TRUE, parts |-> <<"proj", "a">>, ends_with_sep |-> FALSE])
    @@ ("/proj/a/" :> [absolute |-> TRUE, parts |-> <<"proj", "a">>, ends_with_sep |-> TRUE])
\* scan_directory_files on the directory given in directory mode
DirectoryFiles == <<[addon |-> "", path |-> "dir/notes.txt"]>>
ScanDirectoryFiles(directory_path) ==
    IF directory_path = <<"proj", "a", "dir">> THEN DirectoryFiles
    ELSE IF directory_path = <<"proj", "a">>
    THEN <<[addon |-> "", path |-> "__manifest__.py"]>> \o DirectoryFiles
         \o <<[addon |-> "", path |-> "models/m.py"]>>
    ELSE <<>>

\* the command line: the addon_name argument and the options
Commands ==
    [addon_name : DOMAIN Arguments,
     exclude : {{}, {"b"}},
     no_exclude : {{}, {"base"}},
     prune_mode : {"none", "soft", "medium", "hard"},
     auto_expand : BOOLEAN,
     add_expand : {{}, {NAB}, {ResPartner}},
     focus_models : {{}, {NA}},
     output_file : BOOLEAN,
     clipboard : BOOLEAN,
     edit : BOOLEAN,
     order : TopologicalOrders]

\* excluded_addons as built from the options
ExcludedAddons(c) == (FRAMEWORK_ADDONS \cup c.exclude) \ c.no_exclude

\* auto_expand after "if focus_models_str and auto_expand: auto_expand = False"
AutoExpand(c) == c.auto_expand /\ c.focus_models = {}
FocusModesCount(c) ==
    (IF c.focus_models # {} THEN 1 ELSE 0) + (IF c.add_expand # {} THEN 1 ELSE 0)
    + (IF AutoExpand(c) THEN 1 ELSE 0)

\* expand_inputs on a single input: the selected addon names, the implicit
\* addons paths, whether directory mode is forced, and its directory
ExpandInputs(addon_name) ==
    LET path == Arguments[addon_name]
        \* Path.resolve, Path.name and Path.parent
        Resolve(p) == IF p.absolute THEN p.parts ELSE Cwd \o p.parts
        Name(p) == IF p.parts = <<>> THEN "" ELSE p.parts[Len(p.parts)]
        Parent(p) == IF p.parts = <<>> THEN p
                     ELSE [p EXCEPT !.parts = SubSeq(p.parts, 1, Len(p.parts) - 1)]
        is_dir == Resolve(path) \in Directories
        ends_with_sep == path.ends_with_sep
        has_manifest == Resolve(path) \in Manifests
        sub_addons == {d \in Manifests : /\ Len(d) = Len(Resolve(path)) + 1
                                         /\ SubSeq(d, 1, Len(d) - 1) = Resolve(path)}
        Mode2(selected, implicit) ==
            [selected_addon_names |-> selected, implicit_addons_paths |-> implicit,
             force_directory_mode |-> FALSE, directory_mode_path |-> <<>>]
        Mode1 == [selected_addon_names |-> {}, implicit_addons_paths |-> {},
                  force_directory_mode |-> TRUE, directory_mode_path |-> Resolve(path)]
    IN IF is_dir /\ (ends_with_sep \/ ~has_manifest) /\ (ends_with_sep \/ sub_addons = {})
       THEN Mode1
       ELSE IF is_dir /\ has_manifest
       THEN Mode2({Name(path)}, {Resolve(Parent(path))})
       ELSE IF is_dir
       THEN Mode2({d[Len(d)] : d \in sub_addons}, {Resolve(path)})
       ELSE Mode2({addon_name}, {})

\* list_depends_command: the selection and its transitive dependencies
DependentAddons(selected) ==
    LET direct == selected \cup UNION {Depends[x] : x \in selected}
    IN direct \cup UNION {Depends[x] : x \in direct}

\* resolve_addons_selection without the filter on excluded_addons
ResolveAddonsSelectionUnfiltered(selected, excluded, order) ==
    SelectSeq(order, LAMBDA dep_name : dep_name \in DependentAddons(selected))

\* resolve_addons_selection
ResolveAddonsSelection(selected, excluded, order) ==
    SelectSeq(order, LAMBDA dep_name :
        dep_name \in DependentAddons(selected) /\ dep_name \notin excluded)

\* target_addon_names without the branch of the prune mode hard
TargetAddonNamesAll(prune_mode, intermediate, selected) == intermediate

\* target_addon_names
TargetAddonNames(prune_mode, intermediate, selected) ==
    IF prune_mode = "hard" THEN SelectSeq(intermediate, LAMBDA x : x \in selected)
    ELSE intermediate

\* the models the auto-expand harvest adds for the selected addons
Harvested(selected) ==
    UNION {{m \in DOMAIN GetOdooModelStats(AddonNodes[x]) :
                /\ GetOdooModelStats(AddonNodes[x])[m].score >= AUTO_EXPAND_THRESHOLD
                /\ m \notin BLACKLIST_AUTO_EXPAND} : x \in selected \cap InstalledAddons}

\* Pass 1: addon_models, all_relations and all_discovered_models
AddonModels(targets) == [x \in Range(targets) |-> DOMAIN AddonRelations[x]]
AllDiscoveredModels(targets) == UNION {DOMAIN AddonRelations[x] : x \in Range(targets)}
AllRelations(targets) ==
    [m \in AllDiscoveredModels(targets) |->
        [parents |-> UNION {AddonRelations[x][m].parents :
                        x \in {y \in Range(targets) : m \in DOMAIN AddonRelations[y]}},
         comodels |-> UNION {AddonRelations[x][m].comodels :
                        x \in {y \in Range(targets) : m \in DOMAIN AddonRelations[y]}}]]

\* late enrichment: the parent of an expanded '.line' model and the '.line'
\* child of any other expanded model, when discovered
EnrichedAdditions(expand, discovered) ==
    {p \in discovered :
        /\ p \notin expand
        /\ p \notin BLACKLIST_AUTO_EXPAND
        /\ \E m \in expand :
              \/ m = Append(p, "line")
              \/ m[Len(m)] # "line" /\ p = Append(m, "line")}

\* the parents of the expanded models, without their own parents
ParentExpansionOnce(expand, relations) ==
    expand \cup {p \in UNION {relations[m].parents : m \in expand \cap DOMAIN relations} :
                    p \notin BLACKLIST_AUTO_EXPAND}

\* recursive parent expansion
RECURSIVE ParentExpansion(_, _)
ParentExpansion(expand, relations) ==
    LET parents == UNION {relations[m].parents : m \in expand \cap DOMAIN relations}
        added == {p \in parents : p \notin expand /\ p \notin BLACKLIST_AUTO_EXPAND}
    IN IF added = {} THEN expand ELSE ParentExpansion(expand \cup added, relations)

\* comodel resolution
RelatedModels(prune_mode, expand, relations) ==
    IF prune_mode \in {"soft", "none"}
    THEN {n \in UNION {relations[m].comodels : m \in expand \cap DOMAIN relations} :
            n \notin BLACKLIST_RELATION_EXPAND}
    ELSE {}

\* the pruning decision of Pass 3 for one addon: the reason, or None
PruneReason(x, c, k) ==
    IF x \in k.excluded_addons THEN "excluded"
    ELSE IF c.prune_mode \notin {"none", "hard"}
            /\ k.addon_models[x] \cap k.relevant_models = {}
    THEN "no_relevant_models"
    ELSE "None"

\* the manifest of an addon that is no framework addon
ContentGathered(x) == IF x \notin FRAMEWORK_ADDONS THEN <<ManifestPath(x)>> ELSE <<>>

\* the keyword arguments of the call of scan_addon_files, and the parameters
\* scan_addon_files declares
ScanKeywords ==
    {"addon_dir", "addon_name", "selected_addon_names", "includes", "excluded_addons",
     "shrink_mode", "expand_models_set", "shrunken_files_content", "relevant_models",
     "prune_mode", "shrunken_files_info", "prune_methods"}
ScanParameters ==
    {"addon_dir", "addon_name", "selected_addon_names", "includes", "excluded_addons",
     "shrink_mode", "expand_models_set", "shrunken_files_content", "relevant_models",
     "prune_mode", "shrunken_files_info"}
\* a keyword the function does not declare raises TypeError
ScanCallRaises == ScanKeywords \ ScanParameters # {}

\* the files scan_addon_files returns for an addon
ScanAddonFiles(x, excluded) ==
    IF x \in excluded THEN <<>> ELSE <<ManifestPath(x), ModelPath(x)>>

\* found_files_list with the files appended that it does not hold yet
AppendNew(found_files, files) ==
    found_files \o SelectSeq(files, LAMBDA f : f \notin Range(found_files))

\* output_modes_count > 2 in place of > 1
TooManyOutputsThree(c) ==
    (IF c.output_file THEN 1 ELSE 0) + (IF c.clipboard THEN 1 ELSE 0)
    + (IF c.edit THEN 1 ELSE 0) > 2

\* the mutual exclusivity check: output_modes_count > 1
TooManyOutputs(c) ==
    (IF c.output_file THEN 1 ELSE 0) + (IF c.clipboard THEN 1 ELSE 0)
    + (IF c.edit THEN 1 ELSE 0) > 1

\* the output actions the options select
OutputActions(c) ==
    (IF c.edit THEN {"editor"} ELSE {}) \cup (IF c.output_file THEN {"file"} ELSE {})
    \cup (IF c.clipboard THEN {"clipboard"} ELSE {})

ModeError == "Only one mode can be used at a time"
NotFoundError == "not found in configured Odoo addons paths"
OutputError == "Please choose only one primary output action"

CliInit ==
    /\ file = <<>>
    /\ req = DefaultRequest
    /\ pc = "idle"
    /\ stats = NoStats
    /\ out = EmptyResult
    /\ ScanIdle
    /\ cmd \in Commands
    /\ ctx = EmptyContext
    /\ cliPc = "start"
    /\ term = Running

\* the exclusion list and the expand options
CheckModes ==
    /\ cliPc = "start"
    /\ cliPc' = IF FocusModesCount(cmd) > 1 THEN "exited" ELSE "inputs"
    /\ term' = IF FocusModesCount(cmd) > 1 THEN Exit(1, ModeError) ELSE term
    /\ ctx' = [ctx EXCEPT !.excluded_addons = ExcludedAddons(cmd),
                          !.expand_models_set =
                              IF FocusModesCount(cmd) > 1 THEN {} ELSE cmd.focus_models]
    /\ UNCHANGED cmd
    /\ UNCHANGED <<shrinkVars, scanVars>>

\* the inputs are expanded and the target addons selected; directory mode
\* returns its context at once
SelectTargets ==
    /\ cliPc = "inputs"
    /\ LET inputs == ExpandInputs(cmd.addon_name)
           selected == inputs.selected_addon_names
           excluded == ctx.excluded_addons \ selected
           intermediate == ResolveAddonsSelection(selected, excluded, cmd.order)
       IN IF inputs.force_directory_mode
          THEN /\ ctx' = [EmptyContext EXCEPT
                             !.found_files_list = ScanDirectoryFiles(inputs.directory_mode_path),
                             !.directory_mode_path = inputs.directory_mode_path]
               /\ cliPc' = "resolved"
               /\ term' = term
          ELSE IF selected \ InstalledAddons # {}
          THEN /\ ctx' = [ctx EXCEPT !.selected_addon_names = selected,
                                     !.implicit_addons_paths = inputs.implicit_addons_paths,
                                     !.excluded_addons = excluded]
               /\ cliPc' = "exited"
               /\ term' = Exit(1, NotFoundError)
          ELSE /\ ctx' = [ctx EXCEPT !.selected_addon_names = selected,
                                     !.implicit_addons_paths = inputs.implicit_addons_paths,
                                     !.excluded_addons = excluded,
                                     !.target_addon_names =
                                         TargetAddonNames(cmd.prune_mode, intermediate, selected)]
               /\ cliPc' = "harvest"
               /\ term' = term
    /\ UNCHANGED cmd
    /\ UNCHANGED <<shrinkVars, scanVars>>

\* auto-expand harvesting, then the models of --add-expand
HarvestExpand ==
    /\ cliPc = "harvest"
    /\ ctx' = [ctx EXCEPT !.expand_models_set =
                  ctx.expand_models_set
                  \cup (IF AutoExpand(cmd) THEN Harvested(ctx.selected_addon_names) ELSE {})
                  \cup (IF cmd.focus_models = {} THEN cmd.add_expand ELSE {})]
    /\ cliPc' = "discover"
    /\ UNCHANGED <<cmd, term>>
    /\ UNCHANGED <<shrinkVars, scanVars>>

\* Pass 1 and Pass 2: the model map, the enrichment of the expand set and
\* the relevant models
Discover ==
    /\ cliPc = "discover"
    /\ LET relations == AllRelations(ctx.target_addon_names)
           enriched == ctx.expand_models_set
                       \cup EnrichedAdditions(ctx.expand_models_set,
                                              AllDiscoveredModels(ctx.target_addon_names))
           expand == ParentExpansion(enriched, relations)
       IN ctx' = [ctx EXCEPT !.addon_models = AddonModels(ctx.target_addon_names),
                             !.expand_models_set = expand,
                             !.relevant_models =
                                 expand \cup RelatedModels(cmd.prune_mode, expand, relations)]
    /\ cliPc' = IF ctx.target_addon_names = <<>> THEN "resolved" ELSE "pass3"
    /\ UNCHANGED <<cmd, term>>
    /\ UNCHANGED <<shrinkVars, scanVars>>

\* Pass 3, one turn of the loop over target_addon_names; after the last turn
\* the context is returned
ScanAddon ==
    /\ cliPc = "pass3"
    /\ LET x == ctx.target_addon_names[ctx.index]
           reason == PruneReason(x, cmd, ctx)
           pruned == IF reason = "None" THEN ctx.pruned_addons
                     ELSE [y \in DOMAIN ctx.pruned_addons \cup {x} |->
                              IF y = x THEN reason ELSE ctx.pruned_addons[y]]
           gathered == ctx.found_files_list \o ContentGathered(x)
           addon_files == ScanAddonFiles(x, IF cmd.prune_mode # "none"
                                            THEN ctx.excluded_addons ELSE {})
       IN IF ScanCallRaises
          THEN /\ ctx' = [ctx EXCEPT !.pruned_addons = pruned, !.found_files_list = gathered]
               /\ cliPc' = "raised"
               /\ term' = Exit(1, "TypeError")
          ELSE /\ ctx' = [ctx EXCEPT
                            !.pruned_addons = pruned,
                            !.found_files_list =
                                IF reason = "None" THEN AppendNew(gathered, addon_files)
                                ELSE gathered,
                            !.addon_files_map =
                                [y \in DOMAIN ctx.addon_files_map \cup {x} |->
                                    IF y = x THEN addon_files ELSE ctx.addon_files_map[y]],
                            !.index = ctx.index + 1]
               /\ cliPc' = IF ctx.index = Len(ctx.target_addon_names) THEN "resolved"
                           ELSE "pass3"
               /\ term' = term
    /\ UNCHANGED cmd
    /\ UNCHANGED <<shrinkVars, scanVars>>

\* the entry point, once the context is resolved: the mutual exclusivity check
CheckOutputs ==
    /\ cliPc = "resolved"
    /\ cliPc' = IF TooManyOutputs(cmd) THEN "exited" ELSE "output"
    /\ term' = IF TooManyOutputs(cmd) THEN Exit(1, OutputError) ELSE term
    /\ UNCHANGED <<cmd, ctx>>
    /\ UNCHANGED <<shrinkVars, scanVars>>

\* the output actions: editor, file, clipboard
Output ==
    /\ cliPc = "output"
    /\ term' = [exit_code |-> 0, message |-> "", actions |-> OutputActions(cmd)]
    /\ cliPc' = "done"
    /\ UNCHANGED <<cmd, ctx>>
    /\ UNCHANGED <<shrinkVars, scanVars>>

CliNext == CheckModes \/ SelectTargets \/ HarvestExpand \/ Discover \/ ScanAddon
           \/ CheckOutputs \/ Output

SpecCli == CliInit /\ [][CliNext]_vars

-----------------------------------------------------------------------------
(* Claims on the command.                                                  *)

\* the target addons are selected: the run is in addon mode and past the
\* checks of its options and of its selection
TargetsSelected == ctx.target_addon_names # <<>>

\* the addons whose turn of Pass 3 has been taken
Processed ==
    {ctx.target_addon_names[i] : i \in
        {j \in 1..Len(ctx.target_addon_names) :
            j < ctx.index \/ (j = ctx.index /\ cliPc = "raised")}}

\* C16: with prune mode soft or medium, an addon of the dependency tree with
\* no model of the relevant set is recorded as pruned, and no file of a
\* pruned addon is in the found-files list.
C16_PrunedAddonHasNoFoundFile ==
    (cmd.prune_mode \in {"soft", "medium"} /\ TargetsSelected) =>
        /\ \A x \in Processed :
               ctx.addon_models[x] \cap ctx.relevant_models = {} => x \in DOMAIN ctx.pruned_addons
        /\ \A i \in 1..Len(ctx.found_files_list) :
               ctx.found_files_list[i].addon \notin DOMAIN ctx.pruned_addons

\* the run is over: it exited, an exception ended it, or its output is done
Ended == cliPc \in {"exited", "raised", "done"}
\* the primary output options given on the command line
OutputOptionsGiven ==
    Cardinality({o \in {"output_file", "clipboard", "edit"} : cmd[o]})
\* the errors that end the resolution of the context
ResolutionErrors == {ModeError, NotFoundError, "TypeError"}

C18_AddExpandJoinsAutoExpand ==
    (cmd.add_expand # {} /\ cmd.auto_expand /\ cmd.focus_models = {} /\ cliPc # "start") =>
        /\ ~(cliPc = "exited" /\ term.message = ModeError)
        /\ cliPc \in {"discover", "pass3", "raised", "resolved"} =>
              cmd.add_expand \cup Harvested(ctx.selected_addon_names) \subseteq ctx.expand_models_set

\* (framework defaults plus --exclude) minus --no-exclude minus the targets
EffectiveExclusion(c) ==
    ((FRAMEWORK_ADDONS \cup c.exclude) \ c.no_exclude)
    \ ExpandInputs(c.addon_name).selected_addon_names

\* C19: no file of an addon of the effective exclusion set is in the found
\* files, and a selected target is never excluded.
C19_ExcludedAddonHasNoFoundFile ==
    TargetsSelected =>
        /\ ctx.excluded_addons = EffectiveExclusion(cmd)
        /\ ctx.selected_addon_names \cap ctx.excluded_addons = {}
        /\ ctx.selected_addon_names \subseteq Range(ctx.target_addon_names)
        /\ \A i \in 1..Len(ctx.found_files_list) :
               ctx.found_files_list[i].addon \notin EffectiveExclusion(cmd)

\* the target 'a' with its dependency 'b' excluded by option: Pass 3 has
\* gathered the manifest of 'a' and nothing of 'b'
C19_Witness ==
    /\ cmd.addon_name = "a"
    /\ "b" \in ctx.excluded_addons
    /\ cliPc = "raised"
    /\ ctx.found_files_list = <<ManifestPath("a")>>

\* C20: with --prune=hard only the selected targets are scanned: no file of
\* a dependency that was not selected is in the found files or in the
\* per-addon file map.
C20_HardPruneScansTargetsOnly ==
    (cmd.prune_mode = "hard" /\ TargetsSelected) =>
        /\ Range(ctx.target_addon_names) \subseteq ctx.selected_addon_names
        /\ DOMAIN ctx.addon_files_map \subseteq ctx.selected_addon_names
        /\ \A i \in 1..Len(ctx.found_files_list) :
               ctx.found_files_list[i].addon \in ctx.selected_addon_names

\* the target 'a' under hard pruning, its dependency 'b' not excluded: Pass 3
\* has gathered the manifest of 'a' and nothing of 'b'
C20_Witness ==
    /\ cmd.prune_mode = "hard"
    /\ cmd.addon_name = "a"
    /\ "b" \notin ctx.excluded_addons
    /\ cliPc = "raised"
    /\ ctx.found_files_list = <<ManifestPath("a")>>

\* the directory an argument names, by the parts of its absolute path
ResolvedDirectory(addon_name) ==
    IF Arguments[addon_name].absolute THEN Arguments[addon_name].parts
    ELSE Cwd \o Arguments[addon_name].parts

\* C21: a single input that names an existing directory and ends with the
\* separator always gives directory mode, manifest or not; without the
\* separator a directory holding a manifest is selected as the addon named
\* like the directory, and the directory's parent is the implicit addons path.
C21_DirectoryInputByNameOrMode ==
    [][SelectTargets =>
        LET d == ResolvedDirectory(cmd.addon_name)
        IN d \in Directories =>
            /\ Arguments[cmd.addon_name].ends_with_sep =>
                    /\ ctx'.directory_mode_path = d
                    /\ ctx'.selected_addon_names = {}
                    /\ cliPc' = "resolved"
            /\ (~Arguments[cmd.addon_name].ends_with_sep /\ d \in Manifests) =>
                    /\ ctx'.selected_addon_names = {d[Len(d)]}
                    /\ ctx'.implicit_addons_paths = {SubSeq(d, 1, Len(d) - 1)}
                    /\ ctx'.directory_mode_path = <<>>]_vars

\* C29: after the parent expansion the expand set holds every parent of its
\* models that is not blacklisted, and it holds a blacklisted model only if
\* the user named it (--focus-models, --add-expand).
C29_ExpandClosedUnderParents ==
    [][Discover =>
        LET relations == AllRelations(ctx.target_addon_names)
        IN /\ \A m \in ctx'.expand_models_set \cap DOMAIN relations :
                 \A q \in relations[m].parents :
                     q \in ctx'.expand_models_set \/ q \in BLACKLIST_AUTO_EXPAND
           /\ \A m \in ctx'.expand_models_set \cap BLACKLIST_AUTO_EXPAND :
                 m \in cmd.add_expand \cup cmd.focus_models]_vars

\* 'a.b' is named, its parent 'a' and the parent 'c' of 'a' have joined the
\* expand set, and the blacklisted parent 'res.partner' of 'a' has not
C29_Witness ==
    /\ cliPc = "pass3"
    /\ cmd.add_expand = {NAB}
    /\ ctx.expand_models_set = {NAB, NA, NC}
    /\ ResPartner \in AllRelations(ctx.target_addon_names)[NA].parents

====
